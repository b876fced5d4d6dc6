---------------------------- MODULE ItineraryProofs ----------------------------
(***************************************************************************)
(* An itinerary in which no name is on two rows, and an airport only where *)
(* the trip starts and ends, stays in order over any edits, changes of     *)
(* flight and rollbacks that leave it so.  Travel leads to the next stop,  *)
(* unchanged days are copied, and, if no leg takes three hours, no visits  *)
(* overlap; nothing comes before the landing while every version starts    *)
(* at an airport.  A trip to one city with its airport on two rows is not  *)
(* such an itinerary, and the code breaks these for it (see the README).   *)
(***************************************************************************)
EXTENDS Itinerary, FiniteSetTheorems, SequenceTheorems, WellFoundedInduction, TLAPS

(* Recursion and induction. *)

\* What 0 has, and each number up to n has if the one before has it, all
\* numbers up to n have.
LEMMA UpToInduction ==
    ASSUME NEW n \in Nat, NEW good \in SUBSET Nat, 0 \in good,
           \A m \in 1 .. n : m - 1 \in good => m \in good
    PROVE  0 .. n \subseteq good
<1> SUFFICES ASSUME ~ (0 .. n \subseteq good) PROVE FALSE
  OBVIOUS
<1> DEFINE bad == (0 .. n) \ good
<1>1. PICK m \in bad : \A k \in bad : <<k, m>> \notin OpToRel(<, Nat)
  <2>1. bad \in SUBSET Nat /\ bad # {}
    OBVIOUS
  <2> HIDE DEF bad
  <2> QED BY <2>1, WFMin, NatLessThanWellFounded
<1>2. m \in 1 .. n
  OBVIOUS
<1>3. m - 1 \notin bad
  <2> SUFFICES ASSUME m - 1 \in bad PROVE FALSE
    OBVIOUS
  <2>1. m - 1 \in Nat /\ m \in Nat /\ m - 1 < m
    BY <1>2
  <2> QED BY <1>1, <2>1 DEF OpToRel
<1> QED BY <1>2, <1>3

\* A set of numbers with a bound has a greatest one.
LEMMA Greatest ==
    ASSUME NEW S \in SUBSET Nat, S # {}, NEW n \in Nat, \A x \in S : x <= n
    PROVE  \E m \in S : \A x \in S : x <= m
<1> DEFINE gaps == {n - x : x \in S}
<1>1. PICK g \in gaps : \A k \in gaps : <<k, g>> \notin OpToRel(<, Nat)
  <2>1. \A x \in S : n - x \in Nat
    OBVIOUS
  <2>2. gaps \in SUBSET Nat /\ gaps # {}
    BY <2>1
  <2> HIDE DEF gaps
  <2> QED BY <2>2, WFMin, NatLessThanWellFounded
<1>2. PICK m \in S : g = n - m
  OBVIOUS
<1>3. ASSUME NEW x \in S PROVE x <= m
  <2>1. n - x \in gaps /\ n - x \in Nat /\ n - m \in Nat
    OBVIOUS
  <2>2. ~ (n - x < n - m)
    BY <1>1, <1>2, <2>1 DEF OpToRel
  <2> QED BY <2>2
<1> QED BY <1>3

\* Max of such a set is that one.
LEMMA MaxIsGreatest ==
    ASSUME NEW S \in SUBSET Nat, S # {}, NEW n \in Nat, \A x \in S : x <= n
    PROVE  Max(S) \in S /\ \A x \in S : x <= Max(S)
<1>1. PICK m \in S : \A x \in S : x <= m
  BY Greatest
<1>2. \E x \in S : \A y \in S : x >= y
  BY <1>1
<1> QED BY <1>2 DEF Max

\* The greater of two numbers.
LEMMA MaxOfTwo ==
    ASSUME NEW a \in Int, NEW b \in Int
    PROVE  Max({a, b}) = IF a >= b THEN a ELSE b
BY DEF Max

\* The smaller of two numbers.
LEMMA MinOfTwo ==
    ASSUME NEW a \in Int, NEW b \in Int
    PROVE  Min({a, b}) = IF a <= b THEN a ELSE b
BY DEF Min

-----------------------------------------------------------------------------
(* The recursive functions of the model have a value. *)

IsDayAfter(day, opening, visits, end, n) ==
    day = [i \in 0 .. n |-> IF i = 0 THEN opening ELSE Visit(day[i - 1], visits[i], end)]

\* For any visits there is a function that gives the day after each.
LEMMA DayAfterExists ==
    ASSUME NEW n \in Nat, NEW opening, NEW visits, NEW end
    PROVE  \E day : IsDayAfter(day, opening, visits, end, n)
<1> DEFINE good == {k \in Nat : \E day : IsDayAfter(day, opening, visits, end, k)}
<1>1. 0 \in good
  <2>1. IsDayAfter([i \in 0 .. 0 |-> opening], opening, visits, end, 0)
    BY DEF IsDayAfter
  <2> QED BY <2>1
<1>2. ASSUME NEW m \in 1 .. n, m - 1 \in good
      PROVE  m \in good
  <2>1. PICK day : IsDayAfter(day, opening, visits, end, m - 1)
    BY <1>2
  <2> DEFINE more ==
        [i \in 0 .. m |-> IF i = m THEN Visit(day[m - 1], visits[m], end) ELSE day[i]]
  <2>2. IsDayAfter(more, opening, visits, end, m)
    <3>1. \A i \in 0 .. m :
              more[i] = IF i = 0 THEN opening ELSE Visit(more[i - 1], visits[i], end)
      <4> TAKE i \in 0 .. m
      <4>1. CASE i = m
        BY <4>1
      <4>2. CASE i # m
        <5>1. i \in 0 .. m - 1 /\ (i # 0 => i - 1 \in 0 .. m - 1)
          BY <4>2
        <5>2. day[i] = IF i = 0 THEN opening ELSE Visit(day[i - 1], visits[i], end)
          BY <2>1, <5>1 DEF IsDayAfter
        <5> QED BY <4>2, <5>1, <5>2
      <4> QED BY <4>1, <4>2
    <3> HIDE DEF more
    <3>2. more = [i \in 0 .. m |-> more[i]]
      BY DEF more
    <3> QED BY <3>1, <3>2 DEF IsDayAfter
  <2> QED BY <2>2
<1>3. 0 .. n \subseteq good
  <2>1. good \in SUBSET Nat
    OBVIOUS
  <2> HIDE DEF good
  <2> QED BY <1>1, <1>2, <2>1, UpToInduction
<1> QED BY <1>3

\* A day starts with its opening and changes with each visit.
LEMMA DayAfterDef ==
    ASSUME NEW S, NEW visits \in Seq(S), NEW opening, NEW end
    PROVE  LET day == DayAfter(opening, visits, end)
           IN  /\ day[0] = opening
               /\ \A i \in 1 .. Len(visits) : day[i] = Visit(day[i - 1], visits[i], end)
<1>1. Len(visits) \in Nat
  OBVIOUS
<1>2. PICK day : IsDayAfter(day, opening, visits, end, Len(visits))
  BY <1>1, DayAfterExists
<1>3. IsDayAfter(DayAfter(opening, visits, end), opening, visits, end, Len(visits))
  BY <1>2 DEF DayAfter, IsDayAfter
<1> QED BY <1>1, <1>3 DEF IsDayAfter

Picked(kept, s, S, n) ==
    kept = [i \in 0 .. n |->
               IF i = 0 THEN <<>>
               ELSE IF s[i] \in S THEN Append(kept[i - 1], s[i]) ELSE kept[i - 1]]

\* For any sequence there is a function that gives what is kept of each prefix.
LEMMA PickedExists ==
    ASSUME NEW n \in Nat, NEW s, NEW S
    PROVE  \E kept : Picked(kept, s, S, n)
<1> DEFINE good == {k \in Nat : \E kept : Picked(kept, s, S, k)}
           Next1(kept, i) == IF s[i] \in S THEN Append(kept, s[i]) ELSE kept
<1>1. 0 \in good
  <2>1. Picked([i \in 0 .. 0 |-> <<>>], s, S, 0)
    BY DEF Picked
  <2> QED BY <2>1
<1>2. ASSUME NEW m \in 1 .. n, m - 1 \in good
      PROVE  m \in good
  <2>1. PICK kept : Picked(kept, s, S, m - 1)
    BY <1>2
  <2> DEFINE more == [i \in 0 .. m |-> IF i = m THEN Next1(kept[m - 1], m) ELSE kept[i]]
  <2>2. Picked(more, s, S, m)
    <3>1. \A i \in 0 .. m : more[i] = IF i = 0 THEN <<>> ELSE Next1(more[i - 1], i)
      <4> TAKE i \in 0 .. m
      <4>1. CASE i = m
        BY <4>1
      <4>2. CASE i # m
        <5>1. i \in 0 .. m - 1 /\ (i # 0 => i - 1 \in 0 .. m - 1)
          BY <4>2
        <5>2. kept[i] = IF i = 0 THEN <<>> ELSE Next1(kept[i - 1], i)
          BY <2>1, <5>1 DEF Picked
        <5> QED BY <4>2, <5>1, <5>2
      <4> QED BY <4>1, <4>2
    <3> HIDE DEF more
    <3>2. more = [i \in 0 .. m |-> more[i]]
      BY DEF more
    <3> QED BY <3>1, <3>2 DEF Picked
  <2> QED BY <2>2
<1>3. 0 .. n \subseteq good
  <2>1. good \in SUBSET Nat
    OBVIOUS
  <2> HIDE DEF good
  <2> QED BY <1>1, <1>2, <2>1, UpToInduction
<1> QED BY <1>3

\* Only returns elements of both sequence and set, and the whole sequence if all are.
LEMMA OnlyTheSet ==
    ASSUME NEW T, NEW s \in Seq(T), NEW S
    PROVE  /\ Only(s, S) \in Seq(S \cap T)
           /\ (\A i \in 1 .. Len(s) : s[i] \in S) => Only(s, S) = s
<1>1. Len(s) \in Nat
  OBVIOUS
<1>2. PICK kept : Picked(kept, s, S, Len(s))
  BY <1>1, PickedExists
<1>3. PICK k : Picked(k, s, S, Len(s)) /\ Only(s, S) = k[Len(s)]
  BY <1>2 DEF Only, Picked
<1>4. /\ k[0] = <<>>
      /\ \A i \in 1 .. Len(s) :
            k[i] = IF s[i] \in S THEN Append(k[i - 1], s[i]) ELSE k[i - 1]
  <2>1. 0 \in 0 .. Len(s) /\ \A i \in 1 .. Len(s) : i \in 0 .. Len(s) /\ i # 0
    BY <1>1
  <2>2. k[0] = <<>>
    BY <1>3, <2>1, Zenon DEF Picked
  <2>3. ASSUME NEW i \in 1 .. Len(s)
        PROVE  k[i] = IF s[i] \in S THEN Append(k[i - 1], s[i]) ELSE k[i - 1]
    BY <1>3, <2>1, Zenon DEF Picked
  <2> QED BY <2>2, <2>3
<1>5. k[Len(s)] \in Seq(S \cap T)
  <2> DEFINE good == {i \in Nat : k[i] \in Seq(S \cap T)}
  <2>1. good \in SUBSET Nat /\ 0 \in good
    <3>1. k[0] \in Seq(S \cap T)
      BY <1>4, EmptySeq
    <3> QED BY <3>1
  <2>2. ASSUME NEW m \in 1 .. Len(s), m - 1 \in good PROVE m \in good
    <3>1. k[m - 1] \in Seq(S \cap T)
      BY <2>2
    <3> s[m] \in T
      OBVIOUS
    <3>2. CASE s[m] \in S
      <4>1. k[m] = Append(k[m - 1], s[m])
        BY <1>4, <3>2
      <4>2. Append(k[m - 1], s[m]) \in Seq(S \cap T)
        BY <3>1, <3>2, AppendProperties
      <4>3. k[m] \in Seq(S \cap T) /\ m \in Nat
        BY ONLY <4>1, <4>2, <1>1, m \in 1 .. Len(s)
      <4> QED BY <4>3
    <3>3. CASE s[m] \notin S
      BY <1>4, <3>1, <3>3
    <3> QED BY <3>2, <3>3
  <2>3. 0 .. Len(s) \subseteq good
    <3> HIDE DEF good
    <3> QED BY <1>1, <2>1, <2>2, UpToInduction
  <2> QED BY <1>1, <2>3
<1>6. ASSUME \A i \in 1 .. Len(s) : s[i] \in S
      PROVE  k[Len(s)] = s
  <2> DEFINE good == {i \in Nat : k[i] = SubSeq(s, 1, i)}
  <2>1. good \in SUBSET Nat /\ 0 \in good
    <3>1. SubSeq(s, 1, 0) = <<>>
      BY SubSeqEmpty
    <3>2. k[0] = SubSeq(s, 1, 0)
      BY <1>4, <3>1
    <3> QED BY <3>2
  <2>2. ASSUME NEW m \in 1 .. Len(s), m - 1 \in good PROVE m \in good
    <3>1. k[m - 1] = SubSeq(s, 1, m - 1)
      BY <2>2
    <3>2. k[m] = Append(SubSeq(s, 1, m - 1), s[m])
      BY <1>4, <1>6, <3>1
    <3>3. SubSeq(s, 1, m - 1) \in Seq(T) /\ s[m] \in T
      OBVIOUS
    <3>4. SubSeq(s, 1, m) = SubSeq(s, 1, m - 1) \o <<s[m]>>
      BY <1>1, SubSeqRecursiveSecond
    <3>5. Append(SubSeq(s, 1, m - 1), s[m]) = SubSeq(s, 1, m - 1) \o <<s[m]>>
      BY <3>3, AppendIsConcat
    <3> QED BY <3>2, <3>4, <3>5
  <2>3. 0 .. Len(s) \subseteq good
    <3> HIDE DEF good
    <3> QED BY <1>1, <2>1, <2>2, UpToInduction
  <2>4. k[Len(s)] = SubSeq(s, 1, Len(s))
    BY <1>1, <2>3
  <2> QED BY <2>4, SubSeqFull
<1> QED BY <1>3, <1>5, <1>6

-----------------------------------------------------------------------------
(* The days of the trip. *)

IsBefore(nights, n) ==
    nights = [i \in 0 .. n |-> IF i = 0 THEN 0 ELSE nights[i - 1] + Nights[i]]

\* There is a function that sums the nights of the first cities.
LEMMA BeforeExists ==
    ASSUME NEW n \in Nat
    PROVE  \E nights : IsBefore(nights, n)
<1> DEFINE good == {k \in Nat : \E nights : IsBefore(nights, k)}
<1>1. 0 \in good
  <2>1. IsBefore([i \in 0 .. 0 |-> 0], 0)
    BY DEF IsBefore
  <2> QED BY <2>1
<1>2. ASSUME NEW m \in 1 .. n, m - 1 \in good
      PROVE  m \in good
  <2>1. PICK nights : IsBefore(nights, m - 1)
    BY <1>2
  <2> DEFINE more == [i \in 0 .. m |-> IF i = m THEN nights[m - 1] + Nights[m] ELSE nights[i]]
  <2>2. IsBefore(more, m)
    <3>1. \A i \in 0 .. m : more[i] = IF i = 0 THEN 0 ELSE more[i - 1] + Nights[i]
      <4> TAKE i \in 0 .. m
      <4>1. CASE i = m
        BY <4>1
      <4>2. CASE i # m
        <5>1. i \in 0 .. m - 1 /\ (i # 0 => i - 1 \in 0 .. m - 1)
          BY <4>2
        <5>2. nights[i] = IF i = 0 THEN 0 ELSE nights[i - 1] + Nights[i]
          BY <2>1, <5>1 DEF IsBefore
        <5> QED BY <4>2, <5>1, <5>2
      <4> QED BY <4>1, <4>2
    <3> HIDE DEF more
    <3>2. more = [i \in 0 .. m |-> more[i]]
      BY DEF more
    <3> QED BY <3>1, <3>2 DEF IsBefore
  <2> QED BY <2>2
<1>3. 0 .. n \subseteq good
  <2>1. good \in SUBSET Nat
    OBVIOUS
  <2> HIDE DEF good
  <2> QED BY <1>1, <1>2, <2>1, UpToInduction
<1> QED BY <1>3

\* The days before a city are those before the one before it and its nights.
LEMMA DaysBeforeDef ==
    /\ Len(Nights) \in Nat /\ Len(Nights) >= 1 /\ Cities = 1 .. Len(Nights)
    /\ \A c \in Cities : Nights[c] \in Nat /\ Nights[c] >= 1
    /\ DaysBefore(1) = 0
    /\ \A c \in Cities : DaysBefore(c + 1) = DaysBefore(c) + Nights[c]
    /\ \A c \in 1 .. Len(Nights) + 1 : DaysBefore(c) \in Nat
<1> DEFINE n == Len(Nights)
<1>1. n \in Nat /\ n >= 1 /\ Cities = 1 .. n /\ \A c \in 1 .. n : Nights[c] \in Nat /\ Nights[c] >= 1
  <2>1. Nights \in Seq(Nat \ {0}) /\ Nights # <<>>
    BY ItineraryAssumption
  <2>2. n \in Nat \ {0} /\ DOMAIN Nights = 1 .. n /\ \A c \in 1 .. n : Nights[c] \in Nat \ {0}
    BY <2>1, EmptySeq, LenProperties, ElementOfSeq
  <2> QED BY <2>2 DEF Cities
<1>2. PICK some : IsBefore(some, n)
  BY <1>1, BeforeExists
<1>3. PICK nights : IsBefore(nights, n) /\ \A c : DaysBefore(c) = nights[c - 1]
  <2> DEFINE nights == CHOOSE f : f = [i \in 0 .. n |-> IF i = 0 THEN 0 ELSE f[i - 1] + Nights[i]]
  <2>1. IsBefore(nights, n)
    BY <1>2 DEF IsBefore
  <2>2. \A c : DaysBefore(c) = nights[c - 1]
    BY DEF DaysBefore
  <2> QED BY <2>1, <2>2
<1>4. /\ nights[0] = 0
      /\ \A i \in 1 .. n : nights[i] = nights[i - 1] + Nights[i]
  BY <1>1, <1>3 DEF IsBefore
<1>5. \A i \in 0 .. n : nights[i] \in Nat
  <2> DEFINE good == {i \in Nat : nights[i] \in Nat}
  <2>1. good \in SUBSET Nat /\ 0 \in good
    BY <1>4
  <2>2. ASSUME NEW m \in 1 .. n, m - 1 \in good PROVE m \in good
    BY <1>1, <1>4, <2>2
  <2>3. 0 .. n \subseteq good
    <3> HIDE DEF good, n
    <3> QED BY <1>1, <2>1, <2>2, UpToInduction
  <2> QED BY <1>1, <2>3
<1>6. DaysBefore(1) = 0
  BY <1>3, <1>4
<1>7. ASSUME NEW c \in 1 .. n PROVE DaysBefore(c + 1) = DaysBefore(c) + Nights[c]
  <2>1. c + 1 - 1 = c
    BY <1>1
  <2> QED BY <1>3, <1>4, <2>1
<1>8. ASSUME NEW c \in 1 .. n + 1 PROVE DaysBefore(c) \in Nat
  <2>1. c - 1 \in 0 .. n
    BY <1>1
  <2> QED BY <1>3, <1>5, <2>1
<1> QED BY <1>1, <1>6, <1>7, <1>8

\* A trip has at least two days; 1 is the first, Max(Days) the last of them.
LEMMA TripDays ==
    /\ Max(Days) \in Nat /\ Max(Days) >= 2 /\ Days = 1 .. Max(Days)
    /\ Max(Days) = DaysBefore(Len(Nights) + 1) + 1
    /\ Min(Days) = 1
<1> DEFINE last == DaysBefore(Len(Nights) + 1) + 1
<1>1. last \in Nat /\ last >= 2
  <2> DEFINE n == Len(Nights)
  <2>1. n \in Cities /\ n \in 1 .. n + 1
    BY DaysBeforeDef
  <2>2. /\ DaysBefore(n + 1) = DaysBefore(n) + Nights[n]
        /\ DaysBefore(n) \in Nat /\ Nights[n] \in Nat /\ Nights[n] >= 1
    BY DaysBeforeDef, <2>1
  <2> QED BY <2>2
<1>2. Days = 1 .. last
  BY DEF Days
<1> HIDE DEF last
<1>3. last \in 1 .. last /\ \A d \in 1 .. last : d <= last
  BY <1>1
<1>4. Max(Days) = last
  <2>1. \A m \in 1 .. last : (\A d \in 1 .. last : m >= d) => m = last
    BY <1>1
  <2>2. \E m \in 1 .. last : \A d \in 1 .. last : m >= d
    BY <1>1
  <2> QED BY <1>2, <2>1, <2>2 DEF Max
<1>5. Min(Days) = 1
  <2>1. \A m \in 1 .. last : (\A d \in 1 .. last : m <= d) => m = 1
    BY <1>1
  <2>2. \E m \in 1 .. last : \A d \in 1 .. last : m <= d
    BY <1>1
  <2> QED BY <1>2, <2>1, <2>2 DEF Min
<1> QED BY <1>1, <1>2, <1>4, <1>5 DEF last

\* A day belongs to a city, and is one of its days.
LEMMA CityOfDay ==
    ASSUME NEW d \in Days
    PROVE  /\ CityOf(d) \in Cities
           /\ d - DaysBefore(CityOf(d)) \in 1 .. CityDays(CityOf(d))
           /\ CityDays(CityOf(d)) \in Nat
<1> DEFINE n == Len(Nights)
           begun == {c \in Cities : DaysBefore(c) < d}
<1>1. d \in Nat /\ d >= 1 /\ d <= DaysBefore(n + 1) + 1
  BY TripDays
<1>2. begun \in SUBSET Nat /\ begun # {} /\ \A c \in begun : c <= n
  <2>1. 1 \in begun
    BY <1>1, DaysBeforeDef
  <2> QED BY <2>1, DaysBeforeDef
<1>3. Max(begun) \in begun /\ \A c \in begun : c <= Max(begun)
  <2> HIDE DEF begun
  <2> QED BY <1>2, MaxIsGreatest, DaysBeforeDef
<1>4. PICK c \in Cities : c = CityOf(d) /\ DaysBefore(c) < d /\ \A e \in begun : e <= c
  BY <1>3 DEF CityOf
<1>5. c \in 1 .. n /\ c \in 1 .. n + 1 /\ n \in Nat
  BY DaysBeforeDef
<1>6. /\ DaysBefore(c) \in Nat /\ Nights[c] \in Nat
      /\ DaysBefore(c + 1) = DaysBefore(c) + Nights[c]
  BY <1>5, DaysBeforeDef
<1>7. CASE c = n
  <2>1. d <= DaysBefore(c) + Nights[c] + 1
    BY <1>1, <1>6, <1>7
  <2>2. CityDays(c) = Nights[c] + 1
    BY <1>7 DEF CityDays
  <2> QED BY <1>1, <1>4, <1>6, <2>1, <2>2
<1>8. CASE c # n
  <2>1. c + 1 \in Cities /\ c + 1 \in 1 .. n + 1
    BY <1>5, <1>8, DaysBeforeDef
  <2>2. c + 1 \notin begun
    BY <1>4, <1>5
  <2>3. ~ (DaysBefore(c + 1) < d) /\ DaysBefore(c + 1) \in Nat
    BY <2>1, <2>2, DaysBeforeDef
  <2>4. CityDays(c) = Nights[c]
    BY <1>8 DEF CityDays
  <2> QED BY <1>1, <1>4, <1>6, <2>3, <2>4
<1> QED BY <1>7, <1>8

-----------------------------------------------------------------------------
(* The stops of a day are places. *)

\* A part of a sequence has its elements.
LEMMA UpToTypes ==
    ASSUME NEW T, NEW s \in Seq(T), NEW first \in Nat \ {0}, NEW last \in Int
    PROVE  UpTo(s, first, last) \in Seq(T)
<1> DEFINE n == Min({last, Len(s)})
<1>1. Len(s) \in Nat
  OBVIOUS
<1>2. n \in Int /\ n <= Len(s)
  BY <1>1, MinOfTwo
<1>3. \A i \in first .. n : s[i] \in T
  BY <1>1, <1>2
<1> HIDE DEF n
<1>4. SubSeq(s, first, n) \in Seq(T)
  BY <1>2, <1>3, SubSeqProperties
<1> QED BY <1>4 DEF UpTo, n

\* The searches find places.
LEMMA CollectedPlaces ==
    ASSUME NEW c \in Cities, NEW seen
    PROVE  /\ CollectPlaces(Restaurants[c], seen) \in Seq(Places)
           /\ CollectPlaces(Sights[c], seen) \in Seq(Places)
<1> DEFINE found == Regions \cup Places
           wanted == Places \ (seen \cup Regions)
<1>1. Restaurants[c] \in Seq(found) /\ Sights[c] \in Seq(found)
  BY ItineraryAssumption
<1>2. wanted \cap found \subseteq Places
  OBVIOUS
<1>3. ASSUME NEW s \in Seq(found) PROVE Only(s, wanted) \in Seq(Places)
  <2> HIDE DEF found, wanted
  <2>1. Only(s, wanted) \in Seq(wanted \cap found)
    BY OnlyTheSet
  <2> QED BY <1>2, <2>1, SeqMonotonic
<1> QED BY <1>1, <1>3 DEF CollectPlaces

\* The best restaurants and sights of a city are places.
LEMMA TopPlaces ==
    ASSUME NEW c \in Cities
    PROVE  TopFoods(c) \in Seq(Places) /\ TopSights(c) \in Seq(Places)
<1>1. 2 * CityDays(c) \in Int
  <2>1. Nights[c] \in Nat
    BY DaysBeforeDef
  <2> QED BY <2>1 DEF CityDays
<1>2. \A s \in Seq(Places) : UpTo(s, 1, 2 * CityDays(c)) \in Seq(Places)
  BY <1>1, UpToTypes
<1> QED BY <1>2, CollectedPlaces DEF TopFoods, TopSights, PickTop

\* A route goes through places of the sequence it is made from.
LEMMA RouteTypes ==
    ASSUME NEW T, NEW places \in Seq(T), NEW r \in RoutesThrough(places)
    PROVE  r \in Seq(T)
<1> DEFINE n == Cardinality(ToSet(places))
<1>1. n \in Nat
  <2>1. places \in [1 .. Len(places) -> ToSet(places)] /\ Len(places) \in Nat
    BY DEF ToSet
  <2>2. places \in Surjection(1 .. Len(places), ToSet(places))
    <3>1. \A p \in ToSet(places) : \E i \in 1 .. Len(places) : places[i] = p
      BY DEF ToSet
    <3> QED BY <2>1, <3>1 DEF Surjection
  <2>3. IsFiniteSet(1 .. Len(places))
    BY <2>1, FS_Interval
  <2>4. IsFiniteSet(ToSet(places))
    BY <2>2, <2>3, FS_Surjection
  <2> QED BY <2>4, FS_CardinalityType
<1>2. r \in [1 .. n -> ToSet(places)]
  BY DEF RoutesThrough, SetToSeqs
<1>3. ToSet(places) \subseteq T
  BY DEF ToSet
<1> HIDE DEF n
<1> QED BY <1>1, <1>2, <1>3

\* The shares of the days are parts of the route.
LEMMA SplitTypes ==
    ASSUME NEW T, NEW s \in Seq(T), NEW n \in Nat, NEW i \in 1 .. n
    PROVE  SplitIntoDays(s, n)[i] \in Seq(T)
<1> DEFINE base == Len(s) \div n
           extra == Len(s) % n
           taken(k) == base * k + Min({k, extra})
<1>1. Len(s) \in Nat /\ n >= 1 /\ \A k \in 1 .. Len(s) : s[k] \in T
  OBVIOUS
<1>2. base \in Nat /\ extra \in Nat /\ Len(s) = (n * base) + extra
  BY <1>1
<1>3. ASSUME NEW k \in 0 .. n PROVE taken(k) \in Nat /\ taken(k) <= Len(s)
  <2> HIDE DEF base, extra
  <2>1. Min({k, extra}) \in Nat /\ Min({k, extra}) <= extra
    BY <1>2, MinOfTwo
  <2>2. base * k \in Nat /\ base * k <= n * base
    <3>1. base * k \in Nat /\ base * (n - k) \in Nat
      BY <1>2
    <3>2. n * base = (base * k) + (base * (n - k))
      BY <1>2
    <3> QED BY <3>1, <3>2
  <2>3. n * base \in Nat
    BY <1>2
  <2> QED BY <1>2, <2>1, <2>2, <2>3
<1>4. SplitIntoDays(s, n)[i] = SubSeq(s, taken(i - 1) + 1, taken(i))
  BY DEF SplitIntoDays
<1>5. i - 1 \in 0 .. n /\ i \in 0 .. n
  OBVIOUS
<1>6. taken(i - 1) \in Nat /\ taken(i) \in Nat /\ taken(i) <= Len(s)
  BY <1>3, <1>5
<1> HIDE DEF taken
<1>7. SubSeq(s, taken(i - 1) + 1, taken(i)) \in Seq(T)
  <2>1. \A k \in taken(i - 1) + 1 .. taken(i) : s[k] \in T
    BY <1>1, <1>6
  <2> QED BY <1>6, <2>1, SubSeqProperties
<1> QED BY <1>4, <1>7

\* The stops of a city's day, sights and meals, are places.
LEMMA CityStopsTypes ==
    ASSUME NEW c \in Cities, NEW route \in Seq(Places),
           NEW i \in 1 .. CityDays(c), CityDays(c) \in Nat
    PROVE  CityStops(c, route, i) \in Seq(Places)
<1> DEFINE sights == SplitIntoDays(route, CityDays(c))[i]
           meals == UpTo(TopFoods(c), 2 * i - 1, 2 * i)
           mid == (Len(sights) + 1) \div 2
<1>1. sights \in Seq(Places)
  BY SplitTypes
<1>2. meals \in Seq(Places)
  <2>1. 2 * i - 1 \in Nat \ {0} /\ 2 * i \in Int
    OBVIOUS
  <2>2. TopFoods(c) \in Seq(Places)
    BY TopPlaces
  <2> QED BY <2>1, <2>2, UpToTypes
<1>3. UpTo(meals, 1, 1) \in Seq(Places) /\ UpTo(meals, 2, 2) \in Seq(Places)
  <2> HIDE DEF meals
  <2> QED BY <1>2, UpToTypes
<1>4. SubSeq(sights, 1, mid) \in Seq(Places) /\ SubSeq(sights, mid + 1, Len(sights)) \in Seq(Places)
  <2>1. Len(sights) \in Nat /\ \A k \in 1 .. Len(sights) : sights[k] \in Places
    BY <1>1, LenProperties, ElementOfSeq
  <2>2. mid \in Nat /\ mid <= Len(sights)
    <3> HIDE DEF sights
    <3> QED BY <2>1
  <2> HIDE DEF mid, sights
  <2>3. \A k \in 1 .. mid : sights[k] \in Places
    BY <2>1, <2>2
  <2>4. \A k \in mid + 1 .. Len(sights) : sights[k] \in Places
    BY <2>1, <2>2
  <2> QED BY <2>1, <2>2, <2>3, <2>4, SubSeqProperties
<1>5. CityStops(c, route, i) = SubSeq(sights, 1, mid) \o UpTo(meals, 1, 1)
          \o SubSeq(sights, mid + 1, Len(sights)) \o UpTo(meals, 2, 2)
  BY DEF CityStops
<1> HIDE DEF sights, meals, mid
<1> QED BY <1>3, <1>4, <1>5, ConcatProperties

\* The stops of a day of the trip, an airport at its ends included.
LEMMA StopsTypes ==
    ASSUME NEW d \in Days, NEW route, NEW found,
           \A c \in Cities : route[c] \in RoutesThrough(TopSights(c))
    PROVE  Stops(d, route, found) \in Seq(Places)
<1> DEFINE c == CityOf(d)
           first == IF d = 1 /\ 1 \in found THEN <<Airport[1]>> ELSE <<>>
           visits == CityStops(c, route[c], d - DaysBefore(c))
           last == IF d = Max(Days) /\ c \in found THEN <<Airport[c]>> ELSE <<>>
<1>1. c \in Cities /\ d - DaysBefore(c) \in 1 .. CityDays(c) /\ CityDays(c) \in Nat
  BY CityOfDay
<1>2. visits \in Seq(Places)
  <2> HIDE DEF c
  <2>1. route[c] \in Seq(Places)
    BY <1>1, TopPlaces, RouteTypes
  <2> QED BY <1>1, <2>1, CityStopsTypes
<1>3. first \in Seq(Places) /\ last \in Seq(Places)
  <2> HIDE DEF c
  <2>1. 1 \in Cities /\ c \in Cities
    BY <1>1, ItineraryAssumption, EmptySeq, LenProperties DEF Cities
  <2>2. Airport[1] \in Places /\ Airport[c] \in Places
    BY <2>1, ItineraryAssumption
  <2> QED BY <2>2
<1>4. Stops(d, route, found) = first \o visits \o last
  BY DEF Stops
<1> HIDE DEF first, visits, last
<1> QED BY <1>2, <1>3, <1>4, ConcatProperties

-----------------------------------------------------------------------------
(* One visit of _schedule_day. *)

ClockTimes == 0 .. 24 * 60 - 1
Stop == [name : Places, airport : BOOLEAN, at : ClockTimes \cup {None}, stay : Nat,
         next : Nat \cup {None}]
DayState == [clock : Int, meals : 0 .. 2, kept : Seq(Item)]

\* A clock time is a minute of the day, the time itself if that is one.
LEMMA ClockTimeTypes ==
    ASSUME NEW t \in Int
    PROVE  /\ ClockTime(t) \in ClockTimes
           /\ t \in ClockTimes => ClockTime(t) = t
           /\ t >= 0 => ClockTime(t) <= t
BY DEF ClockTime, ClockTimes

\* The travel of a row, 0 where it shows none.
LEMMA TravelTypes ==
    ASSUME NEW r \in Stop
    PROVE  Travel(r) \in Nat /\ (r.next # None => Travel(r) = r.next)
BY DEF Travel, Stop

\* A stored row is a row: one whose time is known.
LEMMA ItemIsStop == Item \subseteq Stop
BY DEF Item, Stop, ClockTimes, Places

\* The numbers of a stored row.
LEMMA ItemTypes ==
    ASSUME NEW r \in Item
    PROVE  r.at \in Int /\ r.stay \in Nat /\ Travel(r) \in Nat
<1>1. r \in Stop
  BY ItemIsStop
<1>2. r.at \in ClockTimes /\ r.stay \in Nat
  BY DEF Item, ClockTimes
<1>3. r.at \in Int
  BY <1>2 DEF ClockTimes
<1> QED BY <1>1, <1>2, <1>3, TravelTypes

\* Meals wait for their time, and dinner takes longer; nothing else does.
LEMMA VisitTimes ==
    ASSUME NEW D \in DayState, NEW r \in Stop
    PROVE  /\ Arrival(D, r) \in Int /\ Arrival(D, r) >= D.clock
           /\ Arrival(D, r) <= D.clock \/ Arrival(D, r) <= 18 * 60
           /\ TimeSpent(D, r) \in Nat
           /\ r.name \notin Food => TimeSpent(D, r) = r.stay
           /\ MealsAfter(D, r) \in 0 .. 2
<1>1. D.clock \in Int /\ D.meals \in 0 .. 2 /\ r.stay \in Nat
  BY DEF DayState, Stop
<1>2. Len(MealAnchors) = 2 /\ MealAnchors[1] = 12 * 60 /\ MealAnchors[2] = 18 * 60
  BY DEF MealAnchors
<1>3. CASE IsMeal(D, r)
  <2>1. D.meals \in 0 .. 1 /\ r.name \in Food
    BY <1>1, <1>2, <1>3 DEF IsMeal
  <2>2. PICK anchor \in {12 * 60, 18 * 60} : anchor = MealAnchors[D.meals + 1]
    BY <1>2, <2>1
  <2>3. Arrival(D, r) = Max({D.clock, anchor})
    BY <1>3, <2>2 DEF Arrival
  <2>4. Arrival(D, r) = IF D.clock >= anchor THEN D.clock ELSE anchor
    BY <1>1, <2>2, <2>3, MaxOfTwo
  <2>5. TimeSpent(D, r) \in Nat
    <3>1. Max({r.stay, DinnerStay}) \in Nat
      BY <1>1, MaxOfTwo DEF DinnerStay
    <3> QED BY <1>1, <3>1 DEF TimeSpent
  <2>6. MealsAfter(D, r) = D.meals + 1
    BY <1>3 DEF MealsAfter
  <2> QED BY <1>1, <2>1, <2>2, <2>4, <2>5, <2>6
<1>4. CASE ~ IsMeal(D, r)
  BY <1>1, <1>4 DEF Arrival, TimeSpent, MealsAfter
<1> QED BY <1>3, <1>4

\* A visit that does not fit leaves the rows but for the travel time of the last.
LEMMA SkipRows ==
    ASSUME NEW D \in DayState, NEW r \in Stop
    PROVE  LET k == D.kept
               m == Skip(D, r).kept
           IN  /\ Skip(D, r) \in DayState
               /\ Skip(D, r).clock = Arrival(D, r)
               /\ Len(m) = Len(k) /\ Len(k) \in Nat
               /\ \A i \in 1 .. Len(k) :
                     /\ m[i].name = k[i].name /\ m[i].at = k[i].at /\ m[i].stay = k[i].stay
                     /\ m[i].airport = k[i].airport
                     /\ m[i].next = IF i = Len(k) THEN None ELSE k[i].next
<1> DEFINE k == D.kept
           m == Skip(D, r).kept
<1>1. k \in Seq(Item) /\ Len(k) \in Nat /\ DOMAIN k = 1 .. Len(k)
  BY DEF DayState
<1>2. m = [i \in 1 .. Len(k) |-> IF i = Len(k) THEN [k[i] EXCEPT !.next = None] ELSE k[i]]
  BY <1>1 DEF Skip
<1>3. ASSUME NEW i \in 1 .. Len(k)
      PROVE  /\ m[i] \in Item
             /\ m[i].name = k[i].name /\ m[i].at = k[i].at /\ m[i].stay = k[i].stay
             /\ m[i].airport = k[i].airport
             /\ m[i].next = IF i = Len(k) THEN None ELSE k[i].next
  <2>1. k[i] \in Item
    BY <1>1, ElementOfSeq
  <2> HIDE DEF k, m
  <2>2. CASE i = Len(k)
    <3>1. m[i] = [k[i] EXCEPT !.next = None]
      BY <1>2, <2>2
    <3> QED BY <2>1, <2>2, <3>1 DEF Item
  <2>3. CASE i # Len(k)
    <3>1. m[i] = k[i]
      BY <1>2, <2>3
    <3> QED BY <2>1, <2>3, <3>1
  <2> QED BY <2>2, <2>3
<1>4. m \in Seq(Item) /\ Len(m) = Len(k)
  <2> HIDE DEF k, m
  <2>1. m \in [1 .. Len(k) -> Item]
    BY <1>2, <1>3
  <2> QED BY <1>1, <2>1
<1>5. Skip(D, r).clock = Arrival(D, r) /\ Skip(D, r).meals = MealsAfter(D, r)
  BY DEF Skip
<1>6. Skip(D, r) \in DayState
  <2>1. Skip(D, r) = [clock |-> Arrival(D, r), meals |-> MealsAfter(D, r), kept |-> m]
    BY DEF Skip
  <2> HIDE DEF m
  <2> QED BY <1>4, <2>1, VisitTimes DEF DayState
<1> QED BY <1>1, <1>3, <1>4, <1>5, <1>6

\* A visit that fits is one more row.
LEMMA KeepRows ==
    ASSUME NEW D \in DayState, NEW r \in Stop
    PROVE  LET k == D.kept
               m == Keep(D, r).kept
           IN  /\ Keep(D, r) \in DayState
               /\ Keep(D, r).clock = Arrival(D, r) + TimeSpent(D, r) + Travel(r)
               /\ Len(m) = Len(k) + 1 /\ Len(k) \in Nat
               /\ \A i \in 1 .. Len(k) : m[i] = k[i]
               /\ m[Len(k) + 1].name = r.name /\ m[Len(k) + 1].next = r.next
               /\ m[Len(k) + 1].at = ClockTime(Arrival(D, r))
               /\ m[Len(k) + 1].stay = TimeSpent(D, r)
<1> DEFINE k == D.kept
           m == Keep(D, r).kept
           row == [r EXCEPT !.at = ClockTime(Arrival(D, r)), !.stay = TimeSpent(D, r)]
<1>1. k \in Seq(Item) /\ Len(k) \in Nat
  BY DEF DayState
<1>2. /\ row \in Item
      /\ row.name = r.name /\ row.next = r.next
      /\ row.at = ClockTime(Arrival(D, r)) /\ row.stay = TimeSpent(D, r)
  <2>1. ClockTime(Arrival(D, r)) \in ClockTimes /\ TimeSpent(D, r) \in Nat
    BY VisitTimes, ClockTimeTypes
  <2> QED BY <2>1 DEF Stop, Item, ClockTimes, Places
<1>3. m = Append(k, row)
  BY DEF Keep
<1>4. Keep(D, r).clock = Arrival(D, r) + TimeSpent(D, r) + Travel(r)
  BY DEF Keep
<1>5. Keep(D, r) = [clock |-> Arrival(D, r) + TimeSpent(D, r) + Travel(r),
                    meals |-> MealsAfter(D, r), kept |-> m]
  BY DEF Keep
<1> HIDE DEF row, m, k
<1>6. m \in Seq(Item) /\ Len(m) = Len(k) + 1 /\ (\A i \in 1 .. Len(k) : m[i] = k[i])
      /\ m[Len(k) + 1] = row
  BY <1>1, <1>2, <1>3, AppendProperties
<1>7. Keep(D, r) \in DayState
  <2>1. Arrival(D, r) + TimeSpent(D, r) + Travel(r) \in Int
    BY VisitTimes, TravelTypes
  <2> QED BY <1>5, <1>6, <2>1, VisitTimes DEF DayState
<1> QED BY <1>1, <1>2, <1>4, <1>6, <1>7 DEF k, m

-----------------------------------------------------------------------------
(* The loop of _schedule_day. *)

OpensAtAirport(items) == IsAirport(Head(items))
ClosesAtAirport(items) == IsAirport(Last(items)) /\ ~ (OpensAtAirport(items) /\ Len(items) = 1)
Off(items) == IF OpensAtAirport(items) THEN 1 ELSE 0

Visits(items) ==
    SubSeq(items, IF OpensAtAirport(items) THEN 2 ELSE 1,
                  IF ClosesAtAirport(items) THEN Len(items) - 1 ELSE Len(items))

Opening(items, window) ==
    [clock |-> window.start + (IF OpensAtAirport(items) THEN Travel(Head(items)) ELSE 0),
     meals |-> 0,
     kept |-> IF OpensAtAirport(items)
              THEN <<[Head(items) EXCEPT !.at = ClockTime(window.start)]>>
              ELSE <<>>]

\* The day after i visits.
After(items, window, i) == DayAfter(Opening(items, window), Visits(items), window.end)[i]
Closed(items, window) == After(items, window, Len(Visits(items)))
Closing(items, window) == ClockTime(Max({Closed(items, window).clock, window.end}))

WellFormed(items, window) ==
    /\ items \in Seq(Stop) /\ items # <<>>
    /\ window.start \in Int /\ window.end \in Int

\* _schedule_day is the loop, and the airport of departure after it.
LEMMA ScheduleDayIs ==
    ASSUME NEW items, NEW window, items # <<>>
    PROVE  ScheduleDay(items, window) =
              IF ClosesAtAirport(items)
              THEN Append(Closed(items, window).kept,
                          [Last(items) EXCEPT !.at = Closing(items, window)])
              ELSE Closed(items, window).kept
BY DEF ScheduleDay, Closed, Closing, After, Opening, Visits, ClosesAtAirport, OpensAtAirport

\* The visits are the stops but for the airports at the ends.
LEMMA VisitsAre ==
    ASSUME NEW items, NEW window, WellFormed(items, window)
    PROVE  /\ Len(items) \in Nat /\ Len(items) >= 1
           /\ Off(items) \in 0 .. 1
           /\ Visits(items) \in Seq(Stop)
           /\ Len(Visits(items)) \in Nat
           /\ \A i \in 1 .. Len(items) : items[i] \in Stop
           /\ \A i \in 1 .. Len(Visits(items)) :
                 /\ Visits(items)[i] = items[Off(items) + i]
                 /\ Off(items) + i \in 1 .. Len(items)
           /\ Off(items) + Len(Visits(items)) =
                 IF ClosesAtAirport(items) THEN Len(items) - 1 ELSE Len(items)
           /\ Head(items) = items[1] /\ Last(items) = items[Len(items)]
<1> DEFINE m == IF OpensAtAirport(items) THEN 2 ELSE 1
           n == IF ClosesAtAirport(items) THEN Len(items) - 1 ELSE Len(items)
<1>1. items \in Seq(Stop) /\ items # <<>>
  BY DEF WellFormed
<1>2. Len(items) \in Nat /\ Len(items) >= 1 /\ \A i \in 1 .. Len(items) : items[i] \in Stop
  BY <1>1, EmptySeq, LenProperties, ElementOfSeq
<1>3. Head(items) = items[1] /\ Last(items) = items[Len(items)]
  BY <1>1 DEF Last
<1>4. /\ m \in 1 .. 2 /\ Off(items) = m - 1
      /\ n \in Nat /\ n <= Len(items) /\ m <= n + 1
  <2>1. CASE Len(items) = 1
    <3>1. OpensAtAirport(items) <=> IsAirport(Last(items))
      BY <1>3, <2>1 DEF OpensAtAirport
    <3>2. ~ ClosesAtAirport(items)
      BY <2>1, <3>1 DEF ClosesAtAirport
    <3> QED BY <1>2, <2>1, <3>2 DEF Off
  <2>2. CASE Len(items) # 1
    <3>1. m \in 1 .. 2 /\ Off(items) = m - 1
      BY DEF Off
    <3>2. n \in Nat /\ n >= 1 /\ n <= Len(items)
      BY <1>2, <2>2
    <3> HIDE DEF m, n
    <3> QED BY <3>1, <3>2
  <2> QED BY <2>1, <2>2
<1>5. Visits(items) = SubSeq(items, m, n)
  BY DEF Visits
<1> HIDE DEF m
<1>6. n = IF ClosesAtAirport(items) THEN Len(items) - 1 ELSE Len(items)
  OBVIOUS
<1> HIDE DEF n
<1>7. /\ SubSeq(items, m, n) \in Seq(Stop)
      /\ Len(SubSeq(items, m, n)) = IF m <= n THEN n - m + 1 ELSE 0
      /\ \A i \in 1 .. n - m + 1 : SubSeq(items, m, n)[i] = items[m + i - 1]
  <2>1. \A i \in m .. n : items[i] \in Stop
    BY <1>2, <1>4
  <2> QED BY <1>4, <2>1, SubSeqProperties
<1>8. Len(Visits(items)) = n - m + 1
  BY <1>4, <1>5, <1>7
<1>9. ASSUME NEW i \in 1 .. Len(Visits(items))
      PROVE  Visits(items)[i] = items[Off(items) + i] /\ Off(items) + i \in 1 .. Len(items)
  <2>1. i \in 1 .. n - m + 1 /\ m + i - 1 = Off(items) + i /\ Off(items) + i \in 1 .. Len(items)
    BY <1>2, <1>4, <1>8
  <2> QED BY <1>5, <1>7, <2>1
<1> QED BY <1>2, <1>3, <1>4, <1>5, <1>6, <1>7, <1>8, <1>9

\* Before the first visit: the clock after the way from the airport, and its row.
LEMMA OpeningIs ==
    ASSUME NEW items, NEW window, WellFormed(items, window)
    PROVE  LET D == Opening(items, window)
           IN  /\ D \in DayState
               /\ Len(D.kept) = Off(items)
               /\ D.clock = window.start + (IF OpensAtAirport(items) THEN Travel(items[1]) ELSE 0)
               /\ OpensAtAirport(items) =>
                     /\ D.kept[1].name = items[1].name /\ D.kept[1].next = items[1].next
                     /\ D.kept[1].stay = items[1].stay
                     /\ D.kept[1].airport = items[1].airport
                     /\ D.kept[1].at = ClockTime(window.start)
<1> DEFINE D == Opening(items, window)
           row == [items[1] EXCEPT !.at = ClockTime(window.start)]
<1>1. items[1] \in Stop /\ Head(items) = items[1]
  BY VisitsAre
<1>2. ClockTime(window.start) \in ClockTimes /\ window.start \in Int /\ Travel(items[1]) \in Nat
  BY <1>1, ClockTimeTypes, TravelTypes DEF WellFormed
<1>3. /\ row \in Item /\ row.name = items[1].name /\ row.next = items[1].next
      /\ row.stay = items[1].stay /\ row.airport = items[1].airport
      /\ row.at = ClockTime(window.start)
  BY <1>1, <1>2 DEF Stop, Item, ClockTimes, Places
<1>4. /\ D.clock = window.start + (IF OpensAtAirport(items) THEN Travel(items[1]) ELSE 0)
      /\ D.meals = 0
      /\ D.kept = IF OpensAtAirport(items) THEN <<row>> ELSE <<>>
      /\ D = [clock |-> D.clock, meals |-> D.meals, kept |-> D.kept]
  BY <1>1 DEF Opening
<1> HIDE DEF D, row
<1>5. D.kept \in Seq(Item) /\ Len(D.kept) = Off(items) /\ (OpensAtAirport(items) => D.kept[1] = row)
  BY <1>3, <1>4 DEF Off
<1>6. D \in DayState
  <2>1. D.clock \in Int
    BY <1>2, <1>4
  <2>2. D.meals \in 0 .. 2
    BY <1>4
  <2>3. D = [clock |-> D.clock, meals |-> D.meals, kept |-> D.kept]
    BY <1>4
  <2> QED BY ONLY <1>5, <2>1, <2>2, <2>3 DEF DayState
<1> QED BY <1>3, <1>4, <1>5, <1>6 DEF D

\* One round of the loop.
LEMMA AfterIs ==
    ASSUME NEW items, NEW window, WellFormed(items, window)
    PROVE  /\ After(items, window, 0) = Opening(items, window)
           /\ \A i \in 1 .. Len(Visits(items)) :
                 After(items, window, i) =
                     Visit(After(items, window, i - 1), items[Off(items) + i], window.end)
<1>1. Visits(items) \in Seq(Stop)
  BY VisitsAre
<1>2. /\ After(items, window, 0) = Opening(items, window)
      /\ \A i \in 1 .. Len(Visits(items)) :
            After(items, window, i) =
                Visit(After(items, window, i - 1), Visits(items)[i], window.end)
  BY <1>1, DayAfterDef DEF After
<1> QED BY <1>2, VisitsAre

\* The rows and the clock are well formed after each visit.
LEMMA AfterTypes ==
    ASSUME NEW items, NEW window, WellFormed(items, window)
    PROVE  \A i \in 0 .. Len(Visits(items)) : After(items, window, i) \in DayState
<1> DEFINE n == Len(Visits(items))
           D(i) == After(items, window, i)
           good == {i \in Nat : D(i) \in DayState}
<1>1. n \in Nat
  BY VisitsAre
<1>2. 0 \in good
  BY AfterIs, OpeningIs
<1>3. ASSUME NEW m \in 1 .. n, m - 1 \in good PROVE m \in good
  <2>1. D(m - 1) \in DayState /\ items[Off(items) + m] \in Stop
    BY <1>3, VisitsAre
  <2>2. D(m) = Visit(D(m - 1), items[Off(items) + m], window.end)
    BY AfterIs
  <2> HIDE DEF D
  <2>3. D(m) \in DayState
    BY <2>1, <2>2, SkipRows, KeepRows DEF Visit
  <2> QED BY <1>1, <2>3
<1>4. good \in SUBSET Nat
  OBVIOUS
<1>5. 0 .. n \subseteq good
  <2> HIDE DEF good, n
  <2> QED BY <1>1, <1>2, <1>3, <1>4, UpToInduction
<1> QED BY <1>5

-----------------------------------------------------------------------------
(* What _schedule_day returns. *)

\* Nobody stays at the airport a day starts from.
NoStayAtHead(items) == items # <<>> /\ OpensAtAirport(items) => items[1].stay = 0

ClosingRow(items, window) == [Last(items) EXCEPT !.at = Closing(items, window)]

\* After the last visit, and the row of the airport of departure.
LEMMA ClosedIs ==
    ASSUME NEW items, NEW window, WellFormed(items, window)
    PROVE  /\ Closed(items, window) \in DayState
           /\ Closing(items, window) \in ClockTimes
           /\ ClosingRow(items, window) \in Item
           /\ ClosingRow(items, window).name = items[Len(items)].name
           /\ ClosingRow(items, window).stay = items[Len(items)].stay
           /\ ClosingRow(items, window).next = items[Len(items)].next
           /\ ClosingRow(items, window).airport = items[Len(items)].airport
           /\ ClosingRow(items, window).at = Closing(items, window)
<1>1. Closed(items, window) \in DayState
  <2>1. Len(Visits(items)) \in 0 .. Len(Visits(items))
    BY VisitsAre
  <2> QED BY <2>1, AfterTypes DEF Closed
<1>2. Closing(items, window) \in ClockTimes
  <2>1. Max({Closed(items, window).clock, window.end}) \in Int
    BY <1>1, MaxOfTwo DEF DayState, WellFormed
  <2> QED BY <2>1, ClockTimeTypes DEF Closing
<1>3. Last(items) = items[Len(items)] /\ items[Len(items)] \in Stop
  BY VisitsAre
<1> QED BY <1>1, <1>2, <1>3 DEF ClosingRow, Stop, Item, ClockTimes, Places

\* The airport a day starts from stays its first row.
LEMMA AfterHead ==
    ASSUME NEW items, NEW window, WellFormed(items, window), OpensAtAirport(items)
    PROVE  LET k == Closed(items, window).kept
           IN  Len(k) >= 1 /\ IsAirport(k[1]) /\ k[1].stay = items[1].stay
<1> DEFINE n == Len(Visits(items))
           D(i) == After(items, window, i)
           Heads(k) == Len(k) >= 1 /\ IsAirport(k[1]) /\ k[1].stay = items[1].stay
           good == {i \in Nat : Heads(D(i).kept)}
<1>1. n \in Nat
  BY VisitsAre
<1>2. 0 \in good
  <2>1. D(0) = Opening(items, window)
    BY AfterIs
  <2>2. /\ Len(D(0).kept) = Off(items)
        /\ D(0).kept[1].airport = items[1].airport /\ D(0).kept[1].stay = items[1].stay
    <3> HIDE DEF D
    <3>1. Len(Opening(items, window).kept) = Off(items)
      BY OpeningIs
    <3>2. /\ Opening(items, window).kept[1].airport = items[1].airport
          /\ Opening(items, window).kept[1].stay = items[1].stay
      BY OpeningIs
    <3> QED BY <2>1, <3>1, <3>2
  <2>3. items[1].airport /\ Off(items) = 1
    BY VisitsAre DEF OpensAtAirport, IsAirport, Off
  <2>4. Heads(D(0).kept)
    <3> DEFINE k == D(0).kept
    <3>1. Len(k) >= 1
      BY <2>2, <2>3
    <3>2. k[1].airport /\ k[1].stay = items[1].stay
      BY <2>2, <2>3
    <3> HIDE DEF k
    <3>3. Heads(k)
      BY <3>1, <3>2 DEF IsAirport
    <3> QED BY <3>3 DEF k
  <2> HIDE DEF D, Heads
  <2> QED BY <2>4
<1>3. ASSUME NEW m \in 1 .. n, m - 1 \in good PROVE m \in good
  <2> DEFINE r == items[Off(items) + m]
  <2>1. D(m - 1) \in DayState /\ r \in Stop
    <3>1. m - 1 \in 0 .. n
      BY <1>1
    <3> QED BY <3>1, AfterTypes, VisitsAre
  <2>2. D(m) = Visit(D(m - 1), r, window.end)
    BY AfterIs
  <2>3. Heads(D(m - 1).kept)
    BY <1>3
  <2> HIDE DEF D, r
  <2>4. CASE D(m) = Skip(D(m - 1), r)
    BY <2>1, <2>3, <2>4, SkipRows DEF IsAirport
  <2>5. CASE D(m) = Keep(D(m - 1), r)
    BY <2>1, <2>3, <2>5, KeepRows
  <2>6. Heads(D(m).kept)
    BY <2>2, <2>4, <2>5 DEF Visit
  <2> QED BY <1>1, <2>6
<1>4. good \in SUBSET Nat
  OBVIOUS
<1>5. 0 .. n \subseteq good
  <2> HIDE DEF good, n
  <2> QED BY <1>1, <1>2, <1>3, <1>4, UpToInduction
<1> QED BY <1>1, <1>5 DEF Closed

\* Rows with the times and travel the database can hold, whatever the window.
LEMMA ScheduleDayTypes ==
    ASSUME NEW items \in Seq(Stop), NEW window, window.start \in Int, window.end \in Int
    PROVE  ScheduleDay(items, window) \in Seq(Item)
<1>1. CASE items = <<>>
  <2>1. ScheduleDay(items, window) = <<>>
    BY <1>1 DEF ScheduleDay
  <2> QED BY <2>1
<1>2. CASE items # <<>>
  <2> DEFINE k == Closed(items, window).kept
             row == ClosingRow(items, window)
  <2>1. WellFormed(items, window)
    BY <1>2 DEF WellFormed
  <2>2. k \in Seq(Item) /\ row \in Item
    BY <2>1, ClosedIs DEF DayState
  <2>3. ScheduleDay(items, window) = IF ClosesAtAirport(items) THEN Append(k, row) ELSE k
    BY <1>2, ScheduleDayIs DEF ClosingRow
  <2> HIDE DEF k, row
  <2> QED BY <2>2, <2>3, AppendProperties
<1> QED BY <1>1, <1>2

\* The airports a day starts from and ends at are its first and its last row.
LEMMA ScheduleDayEnds ==
    ASSUME NEW items \in Seq(Stop), items # <<>>,
           NEW window, window.start \in Int, window.end \in Int
    PROVE  LET day == ScheduleDay(items, window)
           IN  /\ OpensAtAirport(items) =>
                     Len(day) >= 1 /\ IsAirport(day[1]) /\ day[1].stay = items[1].stay
               /\ ClosesAtAirport(items) =>
                     /\ Len(day) = Len(Closed(items, window).kept) + 1
                     /\ IsAirport(day[Len(day)])
<1> DEFINE k == Closed(items, window).kept
           row == ClosingRow(items, window)
           day == ScheduleDay(items, window)
<1>1. WellFormed(items, window)
  BY DEF WellFormed
<1>2. k \in Seq(Item) /\ row \in Item /\ row.airport = items[Len(items)].airport
  BY <1>1, ClosedIs DEF DayState
<1>3. day = IF ClosesAtAirport(items) THEN Append(k, row) ELSE k
  BY ScheduleDayIs DEF ClosingRow
<1>4. OpensAtAirport(items) => Len(k) >= 1 /\ IsAirport(k[1]) /\ k[1].stay = items[1].stay
  BY <1>1, AfterHead
<1>5. ClosesAtAirport(items) => IsAirport(row)
  BY <1>1, <1>2, VisitsAre DEF ClosesAtAirport, IsAirport
<1> HIDE DEF k, row, day
<1>6. /\ Len(Append(k, row)) = Len(k) + 1 /\ Len(k) \in Nat
      /\ \A i \in 1 .. Len(k) : Append(k, row)[i] = k[i]
      /\ Append(k, row)[Len(k) + 1] = row
  BY <1>2, AppendProperties
<1> QED BY <1>3, <1>4, <1>5, <1>6 DEF k, day

\* A row's travel leads to the next row, if it is known; the last row has none.
Linked(rows) ==
    /\ \A i \in 1 .. Len(rows) - 1 :
          rows[i].next # None => rows[i].next = Leg[<<rows[i].name, rows[i + 1].name>>]
    /\ Len(rows) > 0 => rows[Len(rows)].next = None

\* After the i-th visit the last row leads to the stop after it, or nowhere.
LinkedUpTo(items, k, i) ==
    /\ \A j \in 1 .. Len(k) - 1 : k[j].next # None => k[j].next = Leg[<<k[j].name, k[j + 1].name>>]
    /\ Len(k) > 0 =>
          /\ Off(items) + i \in 1 .. Len(items)
          /\ k[Len(k)].next # None =>
                /\ k[Len(k)].next = items[Off(items) + i].next
                /\ k[Len(k)].name = items[Off(items) + i].name

\* One more row, the next stop.
LEMMA OneMoreLink ==
    ASSUME NEW items, Linked(items), NEW i \in Nat, NEW k, NEW m,
           Len(items) \in Nat, Len(k) \in Nat, Off(items) \in 0 .. 1,
           LinkedUpTo(items, k, i), Off(items) + i + 1 \in 1 .. Len(items),
           Len(m) = Len(k) + 1, \A j \in 1 .. Len(k) : m[j] = k[j],
           m[Len(k) + 1].name = items[Off(items) + i + 1].name,
           m[Len(k) + 1].next = items[Off(items) + i + 1].next
    PROVE  LinkedUpTo(items, m, i + 1)
<1>1. ASSUME NEW j \in 1 .. Len(m) - 1, m[j].next # None
      PROVE  m[j].next = Leg[<<m[j].name, m[j + 1].name>>]
  <2>1. j \in 1 .. Len(k) /\ m[j] = k[j]
    OBVIOUS
  <2>2. CASE j = Len(k)
    <3> DEFINE o == Off(items) + i
    <3>1. /\ o \in 1 .. Len(items) /\ k[j].next = items[o].next /\ k[j].name = items[o].name
      BY <1>1, <2>1, <2>2 DEF LinkedUpTo
    <3>2. o \in 1 .. Len(items) - 1 /\ items[o].next # None
      BY <1>1, <2>1, <3>1
    <3>3. items[o].next = Leg[<<items[o].name, items[o + 1].name>>]
      BY <3>2 DEF Linked
    <3>4. m[j + 1].name = items[o + 1].name
      BY <2>2
    <3> QED BY <2>1, <3>1, <3>3, <3>4
  <2>3. CASE j # Len(k)
    <3>1. j \in 1 .. Len(k) - 1 /\ j + 1 \in 1 .. Len(k) /\ m[j + 1] = k[j + 1]
      BY <2>1, <2>3
    <3>2. k[j].next = Leg[<<k[j].name, k[j + 1].name>>]
      BY <1>1, <2>1, <3>1 DEF LinkedUpTo
    <3> QED BY <2>1, <3>1, <3>2
  <2> QED BY <2>2, <2>3
<1>2. Off(items) + (i + 1) = Off(items) + i + 1
  OBVIOUS
<1> QED BY <1>1, <1>2 DEF LinkedUpTo

\* The rows are linked after the last visit.
LEMMA AfterLinked ==
    ASSUME NEW items, NEW window, WellFormed(items, window), Linked(items)
    PROVE  LinkedUpTo(items, Closed(items, window).kept, Len(Visits(items)))
<1> DEFINE n == Len(Visits(items))
           D(i) == After(items, window, i)
           good == {i \in Nat : LinkedUpTo(items, D(i).kept, i)}
<1>1. n \in Nat /\ Off(items) \in 0 .. 1 /\ Len(items) \in Nat /\ Len(items) >= 1
  BY VisitsAre
<1>2. 0 \in good
  <2>1. D(0) = Opening(items, window) /\ Len(D(0).kept) = Off(items)
    BY AfterIs, OpeningIs
  <2>2. Off(items) = 1 => OpensAtAirport(items)
    BY DEF Off
  <2>3. Off(items) = 1 => D(0).kept[1].name = items[1].name /\ D(0).kept[1].next = items[1].next
    BY <2>1, <2>2, OpeningIs
  <2> HIDE DEF D
  <2>4. CASE Off(items) = 0
    BY <1>1, <2>1, <2>4 DEF LinkedUpTo
  <2>5. CASE Off(items) = 1
    BY <1>1, <2>1, <2>3, <2>5 DEF LinkedUpTo
  <2>6. LinkedUpTo(items, D(0).kept, 0)
    BY <1>1, <2>4, <2>5
  <2> QED BY <2>6
<1>3. ASSUME NEW m \in 1 .. n, m - 1 \in good PROVE m \in good
  <2> DEFINE r == items[Off(items) + m]
  <2>1. D(m - 1) \in DayState /\ r \in Stop /\ Off(items) + m \in 1 .. Len(items)
    <3>1. m - 1 \in 0 .. n
      BY <1>1
    <3> QED BY <3>1, AfterTypes, VisitsAre
  <2>2. D(m) = Visit(D(m - 1), r, window.end)
    BY AfterIs
  <2>3. LinkedUpTo(items, D(m - 1).kept, m - 1) /\ m - 1 \in Nat
    BY <1>3
  <2>4. CASE D(m) = Keep(D(m - 1), r)
    <3> DEFINE k == D(m - 1).kept
               l == D(m).kept
    <3>1. /\ Len(l) = Len(k) + 1 /\ Len(k) \in Nat
          /\ \A i \in 1 .. Len(k) : l[i] = k[i]
          /\ l[Len(k) + 1].name = r.name /\ l[Len(k) + 1].next = r.next
      BY <2>1, <2>4, KeepRows
    <3>2. Off(items) + (m - 1) + 1 = Off(items) + m /\ m - 1 + 1 = m
      BY <1>1
    <3> HIDE DEF k, l
    <3>3. LinkedUpTo(items, k, m - 1)
      BY <2>3 DEF k
    <3>4. LinkedUpTo(items, l, m - 1 + 1)
      BY <1>1, <2>1, <2>3, <3>1, <3>2, <3>3, OneMoreLink
    <3> QED BY <3>2, <3>4 DEF l
  <2>5. CASE D(m) = Skip(D(m - 1), r)
    <3> DEFINE k == D(m - 1).kept
               l == D(m).kept
    <3>1. /\ Len(l) = Len(k) /\ Len(k) \in Nat
          /\ \A i \in 1 .. Len(k) : /\ l[i].name = k[i].name
                                    /\ l[i].next = IF i = Len(k) THEN None ELSE k[i].next
      BY <2>1, <2>5, SkipRows
    <3> HIDE DEF k, l
    <3>2. LinkedUpTo(items, k, m - 1)
      BY <2>3 DEF k
    <3>3. ASSUME NEW j \in 1 .. Len(l) - 1, l[j].next # None
          PROVE  l[j].next = Leg[<<l[j].name, l[j + 1].name>>]
      <4>1. j \in 1 .. Len(k) /\ j + 1 \in 1 .. Len(k) /\ j # Len(k)
        BY <3>1
      <4> QED BY <3>1, <3>2, <3>3, <4>1 DEF LinkedUpTo
    <3>4. Len(l) > 0 => l[Len(l)].next = None
      BY <3>1
    <3>5. LinkedUpTo(items, l, m)
      BY <2>1, <3>3, <3>4 DEF LinkedUpTo
    <3> QED BY <3>5 DEF l
  <2>6. LinkedUpTo(items, D(m).kept, m) /\ m \in Nat
    BY <1>1, <2>2, <2>4, <2>5 DEF Visit
  <2> QED BY <2>6
<1>4. good \in SUBSET Nat
  OBVIOUS
<1>5. 0 .. n \subseteq good
  <2> HIDE DEF good, n
  <2> QED BY <1>1, <1>2, <1>3, <1>4, UpToInduction
<1> QED BY <1>1, <1>5 DEF Closed

\* Visits left out leave no travel to them.
LEMMA ScheduleDayLinked ==
    ASSUME NEW items \in Seq(Stop), NEW window, window.start \in Int, window.end \in Int,
           Linked(items)
    PROVE  Linked(ScheduleDay(items, window))
<1>1. CASE items = <<>>
  <2>1. ScheduleDay(items, window) = <<>>
    BY <1>1 DEF ScheduleDay
  <2> QED BY <2>1 DEF Linked
<1>2. CASE items # <<>>
  <2> DEFINE k == Closed(items, window).kept
             row == ClosingRow(items, window)
             n == Len(Visits(items))
  <2>1. WellFormed(items, window)
    BY <1>2 DEF WellFormed
  <2>2. /\ k \in Seq(Item) /\ row \in Item
        /\ row.name = items[Len(items)].name /\ row.next = items[Len(items)].next
    BY <2>1, ClosedIs DEF DayState
  <2>3. LinkedUpTo(items, k, n)
    BY <2>1, AfterLinked
  <2>4. /\ Len(items) \in Nat /\ Len(items) >= 1 /\ Off(items) \in 0 .. 1 /\ n \in Nat
        /\ Off(items) + n = IF ClosesAtAirport(items) THEN Len(items) - 1 ELSE Len(items)
    BY <2>1, VisitsAre
  <2>5. ScheduleDay(items, window) = IF ClosesAtAirport(items) THEN Append(k, row) ELSE k
    BY <1>2, ScheduleDayIs DEF ClosingRow
  <2>6. items[Len(items)].next = None
    BY <2>4 DEF Linked
  <2> HIDE DEF k, row, n
  <2>7. CASE ~ ClosesAtAirport(items)
    <3>1. Off(items) + n = Len(items)
      BY <2>4, <2>7
    <3>2. Linked(k)
      BY <2>3, <2>6, <3>1 DEF Linked, LinkedUpTo
    <3> QED BY <2>5, <2>7, <3>2
  <2>8. CASE ClosesAtAirport(items)
    <3> DEFINE m == Append(k, row)
    <3>1. /\ Len(m) = Len(k) + 1 /\ Len(k) \in Nat
          /\ \A i \in 1 .. Len(k) : m[i] = k[i]
          /\ m[Len(k) + 1] = row
      BY <2>2, AppendProperties
    <3>2. Off(items) + n + 1 = Len(items)
      BY <2>4, <2>8
    <3> HIDE DEF m
    <3>3. /\ m[Len(k) + 1].name = items[Off(items) + n + 1].name
          /\ m[Len(k) + 1].next = items[Off(items) + n + 1].next
          /\ Off(items) + n + 1 \in 1 .. Len(items)
      BY <2>2, <2>4, <3>1, <3>2
    <3>4. LinkedUpTo(items, m, n + 1)
      BY <2>3, <2>4, <3>1, <3>3, OneMoreLink
    <3>5. m[Len(m)].next = None
      BY <2>2, <2>6, <3>1
    <3>6. Linked(m)
      BY <3>4, <3>5 DEF Linked, LinkedUpTo
    <3> QED BY <2>5, <2>8, <3>6 DEF m
  <2> QED BY <2>7, <2>8
<1> QED BY <1>1, <1>2

\* A row's stay and travel are over when the next one starts.
Spread(rows) == \A i \in 1 .. Len(rows) - 1 : rows[i].at + rows[i].stay + Travel(rows[i]) <= rows[i + 1].at

StartsAt(rows, t) == \A i \in 1 .. Len(rows) : rows[i].at >= t

\* The window and any travel after it end before midnight.
Slack(items, window) ==
    \A i \in 1 .. Len(items) : /\ window.start + Travel(items[i]) < 24 * 60
                               /\ window.end + Travel(items[i]) < 24 * 60

\* After each visit the clock is past the last row's stay and travel.
OnTime(items, window, D) ==
    /\ D.clock >= window.start
    /\ Spread(D.kept)
    /\ Len(D.kept) > 0 =>
          D.kept[Len(D.kept)].at + D.kept[Len(D.kept)].stay + Travel(D.kept[Len(D.kept)]) <= D.clock
    /\ window.start < 24 * 60 => StartsAt(D.kept, window.start)
    /\ Slack(items, window) => D.clock < 24 * 60
    /\ Len(D.kept) = 0 /\ window.start < 24 * 60 => D.clock < 24 * 60

\* One more row, when the clock has come to it.
LEMMA OneMoreRow ==
    ASSUME NEW k \in Seq(Item), NEW m \in Seq(Item), Len(m) = Len(k) + 1,
           \A j \in 1 .. Len(k) : m[j] = k[j],
           Spread(k),
           Len(k) > 0 => k[Len(k)].at + k[Len(k)].stay + Travel(k[Len(k)]) <= m[Len(k) + 1].at
    PROVE  /\ Spread(m)
           /\ \A t \in Int : StartsAt(k, t) /\ m[Len(k) + 1].at >= t => StartsAt(m, t)
<1>1. Len(k) \in Nat
  OBVIOUS
<1>2. ASSUME NEW j \in 1 .. Len(m) - 1
      PROVE  m[j].at + m[j].stay + Travel(m[j]) <= m[j + 1].at
  <2>1. j \in 1 .. Len(k) /\ m[j] = k[j]
    BY <1>1
  <2>2. CASE j = Len(k)
    BY <1>1, <2>1, <2>2
  <2>3. CASE j # Len(k)
    <3>1. j \in 1 .. Len(k) - 1 /\ j + 1 \in 1 .. Len(k) /\ m[j + 1] = k[j + 1]
      BY <1>1, <2>1, <2>3
    <3>2. k[j].at + k[j].stay + Travel(k[j]) <= k[j + 1].at
      BY <3>1 DEF Spread
    <3> QED BY <2>1, <3>1, <3>2
  <2> QED BY <2>2, <2>3
<1>3. ASSUME NEW t \in Int, StartsAt(k, t), m[Len(k) + 1].at >= t, NEW j \in 1 .. Len(m)
      PROVE  m[j].at >= t
  <2>1. CASE j = Len(k) + 1
    BY <1>3, <2>1
  <2>2. CASE j # Len(k) + 1
    <3>1. j \in 1 .. Len(k) /\ m[j] = k[j]
      BY <1>1, <2>2
    <3> QED BY <1>3, <3>1 DEF StartsAt
  <2> QED BY <2>1, <2>2
<1> QED BY <1>2, <1>3 DEF Spread, StartsAt

\* The arrival at the airport, or nothing yet.
LEMMA OpeningOnTime ==
    ASSUME NEW items, NEW window, WellFormed(items, window), NoStayAtHead(items),
           window.start >= 0
    PROVE  OnTime(items, window, Opening(items, window))
<1> DEFINE D == Opening(items, window)
<1>1. /\ D \in DayState /\ Len(D.kept) = Off(items)
      /\ D.clock = window.start + (IF OpensAtAirport(items) THEN Travel(items[1]) ELSE 0)
      /\ OpensAtAirport(items) =>
            /\ D.kept[1].name = items[1].name /\ D.kept[1].next = items[1].next
            /\ D.kept[1].stay = items[1].stay
            /\ D.kept[1].at = ClockTime(window.start)
  BY OpeningIs
<1>2. /\ window.start \in Int /\ window.start >= 0
      /\ 1 \in 1 .. Len(items) /\ items[1] \in Stop /\ Travel(items[1]) \in Nat
  <2>1. 1 \in 1 .. Len(items) /\ items[1] \in Stop
    BY VisitsAre
  <2> QED BY <2>1, TravelTypes DEF WellFormed
<1>3. Slack(items, window) => D.clock < 24 * 60
  <2>1. Slack(items, window) => window.start + Travel(items[1]) < 24 * 60
    BY <1>2 DEF Slack
  <2> HIDE DEF D
  <2> QED BY <1>1, <1>2, <2>1
<1> HIDE DEF D
<1>4. CASE ~ OpensAtAirport(items)
  <2>1. Len(D.kept) = 0
    BY <1>1, <1>4 DEF Off
  <2>2. D.clock = window.start
    BY <1>1, <1>2, <1>4
  <2>3. OnTime(items, window, D)
    BY <1>2, <1>3, <2>1, <2>2 DEF OnTime, Spread, StartsAt
  <2> QED BY <2>3 DEF D
<1>5. CASE OpensAtAirport(items)
  <2>1. Len(D.kept) = 1
    BY <1>1, <1>5 DEF Off
  <2>2. items[1].stay = 0
    <3>1. items # <<>>
      BY DEF WellFormed
    <3> QED BY <1>5, <3>1 DEF NoStayAtHead
  <2>3. Travel(D.kept[1]) = Travel(items[1])
    BY <1>1, <1>5 DEF Travel
  <2>4. /\ ClockTime(window.start) \in Int /\ ClockTime(window.start) <= window.start
        /\ window.start < 24 * 60 => ClockTime(window.start) = window.start
    <3> DEFINE t == window.start
    <3>1. t \in Int /\ t >= 0
      BY <1>2
    <3> HIDE DEF t
    <3>2. ClockTime(t) \in ClockTimes /\ ClockTime(t) <= t
      BY <3>1, ClockTimeTypes
    <3>3. t < 24 * 60 => ClockTime(t) = t
      BY <3>1, ClockTimeTypes DEF ClockTimes
    <3> QED BY <3>2, <3>3 DEF t, ClockTimes
  <2>5. D.kept[1].at + D.kept[1].stay + Travel(D.kept[1]) <= D.clock
    BY <1>1, <1>2, <1>5, <2>2, <2>3, <2>4
  <2>6. D.clock >= window.start
    BY <1>1, <1>2, <1>5
  <2>7. window.start < 24 * 60 => D.kept[1].at >= window.start
    BY <1>1, <1>2, <1>5, <2>4
  <2>8. OnTime(items, window, D)
    BY <1>3, <2>1, <2>5, <2>6, <2>7 DEF OnTime, Spread, StartsAt
  <2> QED BY <2>8 DEF D
<1> QED BY <1>4, <1>5

\* A visit, left out or kept, leaves the clock past the last row.
LEMMA VisitOnTime ==
    ASSUME NEW items, NEW window, WellFormed(items, window),
           window.start >= 0, window.end < 24 * 60,
           NEW D \in DayState, OnTime(items, window, D),
           NEW i \in 1 .. Len(items)
    PROVE  OnTime(items, window, Visit(D, items[i], window.end))
<1> DEFINE r == items[i]
           a == Arrival(D, r)
           t == TimeSpent(D, r)
           k == D.kept
<1>1. r \in Stop /\ Travel(r) \in Nat /\ window.start \in Int /\ window.end \in Int
  BY VisitsAre, TravelTypes DEF WellFormed
<1>2. D.clock \in Int /\ k \in Seq(Item) /\ Len(k) \in Nat
  BY DEF DayState
<1>3. a \in Int /\ a >= D.clock /\ (a <= D.clock \/ a <= 18 * 60) /\ t \in Nat
  BY <1>1, VisitTimes
<1>4. /\ D.clock >= window.start /\ (Slack(items, window) => D.clock < 24 * 60)
      /\ Len(k) = 0 /\ window.start < 24 * 60 => D.clock < 24 * 60
  BY DEF OnTime
<1>5. \A j \in 1 .. Len(k) : /\ k[j] \in Item /\ k[j].at \in Int
                             /\ k[j].stay \in Nat /\ Travel(k[j]) \in Nat
  <2>1. \A j \in 1 .. Len(k) : k[j] \in Item
    BY <1>2, ElementOfSeq
  <2> QED BY <2>1, ItemTypes
<1>6. Spread(k) /\ (window.start < 24 * 60 => StartsAt(k, window.start))
  BY DEF OnTime
<1>7. Len(k) > 0 => k[Len(k)].at + k[Len(k)].stay + Travel(k[Len(k)]) <= D.clock
  BY DEF OnTime
<1>8. CASE a + t > window.end
  <2> DEFINE m == Skip(D, r).kept
             E == Skip(D, r)
  <2>1. /\ E.clock = a /\ Len(m) = Len(k)
        /\ \A j \in 1 .. Len(k) :
              /\ m[j].at = k[j].at /\ m[j].stay = k[j].stay
              /\ m[j].next = IF j = Len(k) THEN None ELSE k[j].next
    BY <1>1, SkipRows
  <2>2. Visit(D, r, window.end) = E
    BY <1>8 DEF Visit
  <2> HIDE DEF k, a, t, m, E, r
  <2>3. \A j \in 1 .. Len(k) : Travel(m[j]) = IF j = Len(k) THEN 0 ELSE Travel(k[j])
    BY <2>1 DEF Travel
  <2>4. Spread(m)
    <3> SUFFICES ASSUME NEW j \in 1 .. Len(m) - 1
                 PROVE  m[j].at + m[j].stay + Travel(m[j]) <= m[j + 1].at
      BY DEF Spread
    <3>1. j \in 1 .. Len(k) - 1 /\ j \in 1 .. Len(k) /\ j + 1 \in 1 .. Len(k) /\ j # Len(k)
      BY <1>2, <2>1
    <3>2. k[j].at + k[j].stay + Travel(k[j]) <= k[j + 1].at
      BY <1>6, <3>1 DEF Spread
    <3>3. m[j].at = k[j].at /\ m[j].stay = k[j].stay /\ Travel(m[j]) = Travel(k[j]) /\ m[j + 1].at = k[j + 1].at
      BY <2>1, <2>3, <3>1
    <3> QED BY <3>2, <3>3
  <2>5. window.start < 24 * 60 => StartsAt(m, window.start)
    BY <1>6, <2>1 DEF StartsAt
  <2>6. Len(m) > 0 => m[Len(m)].at + m[Len(m)].stay + Travel(m[Len(m)]) <= E.clock
    <3> SUFFICES ASSUME Len(m) > 0
                 PROVE  m[Len(m)].at + m[Len(m)].stay + Travel(m[Len(m)]) <= E.clock
      OBVIOUS
    <3>1. Len(k) \in 1 .. Len(k)
      BY <1>2, <2>1
    <3>2. m[Len(m)].at = k[Len(k)].at /\ m[Len(m)].stay = k[Len(k)].stay /\ Travel(m[Len(m)]) = 0
      BY <2>1, <2>3, <3>1
    <3>3. /\ k[Len(k)].at \in Int /\ k[Len(k)].stay \in Nat /\ Travel(k[Len(k)]) \in Nat
          /\ k[Len(k)].at + k[Len(k)].stay + Travel(k[Len(k)]) <= D.clock
      BY <1>5, <1>7, <3>1
    <3>4. \A x \in Int, y, z \in Nat, u, v \in Int : x + y + z <= u /\ u <= v => x + y + 0 <= v
      OBVIOUS
    <3> QED BY <1>2, <1>3, <2>1, <3>2, <3>3, <3>4
  <2>7. E.clock >= window.start /\ (Slack(items, window) => E.clock < 24 * 60)
    BY <1>1, <1>2, <1>3, <1>4, <2>1
  <2>8. E.kept = m
    BY DEF m, E
  <2>9. Len(m) = 0 /\ window.start < 24 * 60 => E.clock < 24 * 60
    BY <1>1, <1>2, <1>3, <1>4, <2>1
  <2>10. OnTime(items, window, E)
    BY <2>4, <2>5, <2>6, <2>7, <2>8, <2>9 DEF OnTime
  <2> QED BY <2>2, <2>10 DEF r
<1>9. CASE ~ (a + t > window.end)
  <2> DEFINE m == Keep(D, r).kept
             E == Keep(D, r)
  <2>1. /\ E \in DayState
        /\ E.clock = a + t + Travel(r) /\ Len(m) = Len(k) + 1
        /\ \A j \in 1 .. Len(k) : m[j] = k[j]
        /\ m[Len(k) + 1].next = r.next
        /\ m[Len(k) + 1].at = ClockTime(a) /\ m[Len(k) + 1].stay = t
    BY <1>1, KeepRows
  <2>2. Visit(D, r, window.end) = E
    BY <1>9 DEF Visit
  <2>3. m \in Seq(Item)
    BY <2>1 DEF DayState
  <2>4. ClockTime(a) = a
    <3>1. a \in ClockTimes
      <4> HIDE DEF a, t
      <4> QED BY <1>1, <1>2, <1>3, <1>4, <1>9 DEF ClockTimes
    <3> QED BY <1>3, <3>1, ClockTimeTypes
  <2>5. Slack(items, window) => window.end + Travel(r) < 24 * 60
    BY DEF Slack
  <2>6. E.kept = m
    OBVIOUS
  <2> HIDE DEF k, a, t, m, E, r
  <2>7. m[Len(k) + 1].at = a
    BY <2>1, <2>4
  <2>8. Travel(m[Len(k) + 1]) = Travel(r)
    BY <2>1 DEF Travel
  <2>9. Len(k) > 0 => k[Len(k)].at + k[Len(k)].stay + Travel(k[Len(k)]) <= m[Len(k) + 1].at
    <3> SUFFICES ASSUME Len(k) > 0
                 PROVE  k[Len(k)].at + k[Len(k)].stay + Travel(k[Len(k)]) <= m[Len(k) + 1].at
      OBVIOUS
    <3>1. Len(k) \in 1 .. Len(k)
      BY <1>2
    <3>2. k[Len(k)].at + k[Len(k)].stay + Travel(k[Len(k)]) \in Int
      BY <1>5, <3>1
    <3> QED BY <1>2, <1>3, <1>7, <2>7, <3>2
  <2>10. Spread(m) /\ \A s \in Int : StartsAt(k, s) /\ m[Len(k) + 1].at >= s => StartsAt(m, s)
    BY <1>2, <1>6, <2>1, <2>3, <2>9, OneMoreRow
  <2>11. window.start < 24 * 60 => StartsAt(m, window.start)
    <3>1. a >= window.start
      BY <1>1, <1>2, <1>3, <1>4
    <3> QED BY <1>1, <1>6, <2>7, <2>10, <3>1
  <2>12. m[Len(m)].at + m[Len(m)].stay + Travel(m[Len(m)]) <= E.clock
    BY <1>1, <1>3, <2>1, <2>7, <2>8
  <2>13. E.clock >= window.start /\ (Slack(items, window) => E.clock < 24 * 60)
    BY <1>1, <1>2, <1>3, <1>4, <1>9, <2>1, <2>5
  <2>14. Len(m) > 0
    BY <1>2, <2>1
  <2>15. OnTime(items, window, E)
    BY <2>6, <2>10, <2>11, <2>12, <2>13, <2>14 DEF OnTime
  <2> QED BY <2>2, <2>15 DEF r
<1> QED BY <1>8, <1>9

\* The clock is past the last row after the last visit.
LEMMA AfterOnTime ==
    ASSUME NEW items, NEW window, WellFormed(items, window), NoStayAtHead(items),
           window.start >= 0, window.end < 24 * 60
    PROVE  OnTime(items, window, Closed(items, window))
<1> DEFINE n == Len(Visits(items))
           D(i) == After(items, window, i)
           good == {i \in Nat : OnTime(items, window, D(i))}
<1>1. n \in Nat
  BY VisitsAre
<1>2. 0 \in good
  BY AfterIs, OpeningOnTime
<1>3. ASSUME NEW m \in 1 .. n, m - 1 \in good PROVE m \in good
  <2>1. D(m - 1) \in DayState /\ Off(items) + m \in 1 .. Len(items)
    <3>1. m - 1 \in 0 .. n
      BY <1>1
    <3> QED BY <3>1, AfterTypes, VisitsAre
  <2>2. D(m) = Visit(D(m - 1), items[Off(items) + m], window.end)
    BY AfterIs
  <2>3. OnTime(items, window, D(m - 1))
    BY <1>3
  <2> HIDE DEF D
  <2>4. OnTime(items, window, D(m))
    BY <2>1, <2>2, <2>3, VisitOnTime
  <2> QED BY <1>1, <2>4
<1>4. good \in SUBSET Nat
  OBVIOUS
<1>5. 0 .. n \subseteq good
  <2> HIDE DEF good, n
  <2> QED BY <1>1, <1>2, <1>3, <1>4, UpToInduction
<1> QED BY <1>1, <1>5 DEF Closed

\* Nothing before the window, and nothing overlaps: the departure airport is the
\* one row that may come later than the window, so it must not come after midnight
\* when it follows another.
LEMMA ScheduleDayTimes ==
    ASSUME NEW items \in Seq(Stop), NEW window, window.start \in Int, window.end \in Int,
           NoStayAtHead(items), window.start >= 0, window.end < 24 * 60,
           items # <<>> /\ ClosesAtAirport(items) =>
              Slack(items, window) \/ Len(Closed(items, window).kept) = 0
    PROVE  /\ Spread(ScheduleDay(items, window))
           /\ window.start < 24 * 60 => StartsAt(ScheduleDay(items, window), window.start)
<1>1. CASE items = <<>>
  <2>1. ScheduleDay(items, window) = <<>>
    BY <1>1 DEF ScheduleDay
  <2> QED BY <2>1 DEF Spread, StartsAt
<1>2. CASE items # <<>>
  <2> DEFINE D == Closed(items, window)
             k == D.kept
             row == ClosingRow(items, window)
  <2>1. WellFormed(items, window)
    BY <1>2 DEF WellFormed
  <2>2. D \in DayState /\ row \in Item /\ row.at = Closing(items, window)
    BY <2>1, ClosedIs
  <2>3. OnTime(items, window, D)
    BY <2>1, AfterOnTime
  <2>4. ScheduleDay(items, window) = IF ClosesAtAirport(items) THEN Append(k, row) ELSE k
    BY <1>2, ScheduleDayIs DEF ClosingRow
  <2>5. k \in Seq(Item) /\ D.clock \in Int
    BY <2>2 DEF DayState
  <2>6. Closing(items, window) = ClockTime(Max({D.clock, window.end}))
    BY DEF Closing
  <2> HIDE DEF D, row
  <2>7. CASE ~ ClosesAtAirport(items)
    BY <2>3, <2>4, <2>7 DEF OnTime
  <2>8. CASE ClosesAtAirport(items)
    <3> DEFINE m == Append(k, row)
    <3>1. Slack(items, window) \/ Len(k) = 0
      BY <1>2, <2>8 DEF D
    <3>2. /\ D.clock >= window.start /\ Spread(k)
          /\ Len(k) > 0 => k[Len(k)].at + k[Len(k)].stay + Travel(k[Len(k)]) <= D.clock
          /\ window.start < 24 * 60 => StartsAt(k, window.start)
          /\ Len(k) > 0 \/ window.start < 24 * 60 => D.clock < 24 * 60
      BY <2>3, <3>1 DEF OnTime
    <3>3. row.at \in Int
      BY <2>2, ItemTypes
    <3>4. ASSUME D.clock < 24 * 60 PROVE row.at >= D.clock
      <4> DEFINE late == Max({D.clock, window.end})
      <4>1. late \in ClockTimes /\ late >= D.clock
        <5>1. late = IF D.clock >= window.end THEN D.clock ELSE window.end
          BY <2>5, MaxOfTwo
        <5>2. window.start >= 0 /\ window.end < 24 * 60 /\ window.start \in Int /\ window.end \in Int
          OBVIOUS
        <5> HIDE DEF late, k
        <5>3. late >= D.clock /\ late >= 0 /\ late < 24 * 60 /\ late \in Int
          BY <2>5, <3>2, <3>4, <5>1, <5>2
        <5> QED BY <5>3 DEF ClockTimes
      <4>2. row.at = ClockTime(late)
        BY <2>2, <2>6
      <4> HIDE DEF late
      <4>3. late \in Int
        BY <4>1 DEF ClockTimes
      <4> QED BY <4>1, <4>2, <4>3, ClockTimeTypes
    <3> HIDE DEF k
    <3>5. /\ m \in Seq(Item) /\ Len(m) = Len(k) + 1 /\ Len(k) \in Nat
          /\ \A i \in 1 .. Len(k) : m[i] = k[i]
          /\ m[Len(k) + 1] = row
      BY <2>2, <2>5, AppendProperties
    <3> HIDE DEF m
    <3>6. Len(k) > 0 => k[Len(k)].at + k[Len(k)].stay + Travel(k[Len(k)]) <= m[Len(k) + 1].at
      <4> SUFFICES ASSUME Len(k) > 0
                   PROVE  k[Len(k)].at + k[Len(k)].stay + Travel(k[Len(k)]) <= row.at
        BY <3>5
      <4>1. k[Len(k)] \in Item
        BY <2>5, <3>5
      <4>2. k[Len(k)].at \in Int /\ k[Len(k)].stay \in Int /\ Travel(k[Len(k)]) \in Int
        BY <4>1, ItemTypes
      <4> QED BY <2>5, <3>2, <3>3, <3>5, <3>4, <4>2
    <3>7. Spread(m) /\ \A t \in Int : StartsAt(k, t) /\ m[Len(k) + 1].at >= t => StartsAt(m, t)
      BY <2>5, <3>2, <3>5, <3>6, OneMoreRow
    <3>8. window.start < 24 * 60 => StartsAt(m, window.start)
      BY <2>5, <3>2, <3>3, <3>5, <3>7, <3>4
    <3> QED BY <2>4, <2>8, <3>7, <3>8 DEF m
  <2> QED BY <2>7, <2>8
<1> QED BY <1>1, <1>2


-----------------------------------------------------------------------------
(* The days as they are built. *)

\* The last visit may end at the end of the day; every leg from there is over
\* by midnight.
ShortLegs == \A l \in Places \X Places : Leg[l] < 24 * 60 - DayEnd

\* With short legs every row's travel is short.
LEMMA ShortTravel ==
    ASSUME ShortLegs, NEW items \in Seq(Stop), Linked(items)
    PROVE  \A i \in 1 .. Len(items) : Travel(items[i]) \in Nat /\ Travel(items[i]) < 180
<1> SUFFICES ASSUME NEW i \in 1 .. Len(items)
             PROVE  Travel(items[i]) \in Nat /\ Travel(items[i]) < 180
  OBVIOUS
<1>1. Len(items) \in Nat /\ \A j \in 1 .. Len(items) : items[j] \in Stop
  BY LenProperties, ElementOfSeq
<1>2. CASE items[i].next = None
  BY <1>2 DEF Travel
<1>3. CASE items[i].next # None
  <2>1. i \in 1 .. Len(items) - 1 /\ i + 1 \in 1 .. Len(items)
    BY <1>1, <1>3 DEF Linked
  <2>2. items[i].next = Leg[<<items[i].name, items[i + 1].name>>]
    BY <1>3, <2>1 DEF Linked
  <2>3. items[i].name \in Places /\ items[i + 1].name \in Places
    BY <1>1, <2>1 DEF Stop
  <2>4. Leg[<<items[i].name, items[i + 1].name>>] < 180
    BY <2>3 DEF ShortLegs, DayEnd
  <2>5. Travel(items[i]) = items[i].next /\ Travel(items[i]) \in Nat
    BY <1>1, <1>3, TravelTypes
  <2> QED BY <2>2, <2>4, <2>5
<1> QED BY <1>2, <1>3

\* The times of a flight are clock times, or None.
LEMMA FlightTypes ==
    ASSUME NEW flight \in Flights
    PROVE  flight.landing \in ClockTimes \cup {None} /\ flight.takeoff \in ClockTimes \cup {None}
BY ItineraryAssumption DEF Flights, ClockTimes

\* No day starts before nine or the arrival in town, none ends after 21:00.
LEMMA DayWindowTypes ==
    ASSUME NEW landing \in ClockTimes \cup {None}, NEW takeoff \in ClockTimes \cup {None}
    PROVE  LET window == DayWindow(landing, takeoff)
           IN  /\ window.start \in Int /\ window.end \in Int
               /\ window.start >= 0 /\ window.end <= DayEnd
               /\ landing = None => window.start = DayStart
               /\ landing # None => window.start >= landing + ArrivalBuffer
               /\ landing # None /\ landing + ArrivalBuffer < 24 * 60 => window.start < 24 * 60
<1> DEFINE window == DayWindow(landing, takeoff)
<1>1. window.start = (IF landing = None THEN DayStart ELSE Max({DayStart, landing + ArrivalBuffer}))
      /\ window.end = (IF takeoff = None THEN DayEnd ELSE Min({DayEnd, takeoff - DepartureBuffer}))
  BY DEF DayWindow
<1> HIDE DEF window
<1>2. ASSUME landing # None
      PROVE  /\ landing \in Int /\ landing >= 0
             /\ Max({DayStart, landing + ArrivalBuffer}) =
                   IF DayStart >= landing + ArrivalBuffer THEN DayStart ELSE landing + ArrivalBuffer
  <2>1. landing \in Int /\ landing >= 0
    BY <1>2 DEF ClockTimes
  <2>2. DayStart \in Int /\ landing + ArrivalBuffer \in Int
    BY <2>1 DEF DayStart, ArrivalBuffer
  <2> QED BY <2>1, <2>2, MaxOfTwo
<1>3. ASSUME takeoff # None
      PROVE  /\ takeoff \in Int
             /\ Min({DayEnd, takeoff - DepartureBuffer}) =
                   IF DayEnd <= takeoff - DepartureBuffer THEN DayEnd ELSE takeoff - DepartureBuffer
  <2>1. takeoff \in Int
    BY <1>3 DEF ClockTimes
  <2>2. DayEnd \in Int /\ takeoff - DepartureBuffer \in Int
    BY <2>1 DEF DayEnd, DepartureBuffer
  <2> QED BY <2>1, <2>2, MinOfTwo
<1>4. window.end \in Int /\ window.end <= DayEnd
  BY <1>1, <1>3 DEF DayEnd, DepartureBuffer
<1>5. CASE landing = None
  BY <1>1, <1>4, <1>5 DEF DayStart, window
<1>6. CASE landing # None
  BY <1>1, <1>2, <1>4, <1>6 DEF DayStart, ArrivalBuffer, window
<1> QED BY <1>5, <1>6

\* The stops as rows without times.
LEMMA ToItemsTypes ==
    ASSUME NEW stops \in Seq(Places)
    PROVE  /\ ToItems(stops) \in Seq(Stop) /\ Len(ToItems(stops)) = Len(stops)
           /\ Linked(ToItems(stops))
<1> DEFINE items == ToItems(stops)
<1>1. /\ Len(stops) \in Nat /\ DOMAIN stops = 1 .. Len(stops)
      /\ \A i \in 1 .. Len(stops) : stops[i] \in Places
  BY LenProperties, ElementOfSeq
<1>2. items = [i \in 1 .. Len(stops) |-> items[i]]
  BY <1>1 DEF ToItems
<1>3. ASSUME NEW i \in 1 .. Len(stops)
      PROVE  /\ items[i] \in Stop
             /\ items[i].name = stops[i]
             /\ items[i].next = IF i = Len(stops) THEN None ELSE Leg[<<stops[i], stops[i + 1]>>]
  <2> DEFINE next == IF i = Len(stops) THEN None ELSE Leg[<<stops[i], stops[i + 1]>>]
  <2>1. items[i] = [name |-> stops[i], airport |-> stops[i] \in Marked,
                    at |-> None, stay |-> Stay[stops[i]], next |-> next]
    BY <1>1 DEF ToItems
  <2>2. next \in Nat \cup {None}
    <3>1. CASE i = Len(stops)
      BY <3>1
    <3>2. CASE i # Len(stops)
      <4>1. Len(stops) \in Nat
        BY <1>1
      <4>2. i \in 1 .. Len(stops) /\ i + 1 \in 1 .. Len(stops)
        BY <3>2, <4>1
      <4>3. stops[i] \in Places /\ stops[i + 1] \in Places
        BY <1>1, <4>2
      <4>4. Leg[<<stops[i], stops[i + 1]>>] \in Nat
        BY <4>3, ItineraryAssumption
      <4> QED BY <3>2, <4>4
    <3> QED BY <3>1, <3>2
  <2>3. stops[i] \in Places /\ Stay[stops[i]] \in Nat
    BY <1>1, ItineraryAssumption
  <2>4. items[i].next = next
    BY <2>1
  <2> HIDE DEF items, next
  <2>5. items[i] \in Stop
    BY <2>1, <2>2, <2>3 DEF Stop
  <2>6. items[i].name = stops[i]
    BY <2>1
  <2> QED BY <2>4, <2>5, <2>6 DEF next
<1> HIDE DEF items
<1>4. items \in Seq(Stop) /\ Len(items) = Len(stops)
  <2>1. items \in [1 .. Len(stops) -> Stop]
    BY <1>2, <1>3
  <2> QED BY <1>1, <2>1
<1>5. Linked(items)
  <2>1. ASSUME NEW i \in 1 .. Len(items) - 1
        PROVE  items[i].next = Leg[<<items[i].name, items[i + 1].name>>]
    <3>1. Len(stops) \in Nat /\ i \in 1 .. Len(stops) - 1
      BY <1>1, <1>4
    <3>2. i \in 1 .. Len(stops) /\ i + 1 \in 1 .. Len(stops) /\ i # Len(stops)
      BY <3>1
    <3>3. items[i].next = Leg[<<stops[i], stops[i + 1]>>]
      BY <1>3, <3>2
    <3>4. items[i].name = stops[i] /\ items[i + 1].name = stops[i + 1]
      BY <1>3, <3>2
    <3> QED BY <3>3, <3>4
  <2>2. Len(items) > 0 => items[Len(items)].next = None
    <3>1. Len(stops) > 0 => Len(stops) \in 1 .. Len(stops)
      BY <1>1
    <3> QED BY <1>3, <1>4, <3>1
  <2> QED BY <2>1, <2>2 DEF Linked
<1> QED BY <1>4, <1>5 DEF items

\* Travel leads to the next row, and nothing overlaps.
DayInOrder(day) ==
    /\ Linked(day)
    /\ ShortLegs => Spread(day)

CanArrive(landing) == landing # None /\ landing + ArrivalBuffer < 24 * 60

\* A day timed for a flight: one that starts with a landing ends at an airport only
\* if that is all there is.
LEMMA TimedDay ==
    ASSUME NEW items \in Seq(Stop), Linked(items), NoStayAtHead(items),
           NEW landing \in ClockTimes \cup {None}, NEW takeoff \in ClockTimes \cup {None},
           landing # None /\ items # <<>> /\ ClosesAtAirport(items) =>
              Len(ScheduleDay(items, DayWindow(landing, takeoff))) = 1
    PROVE  LET day == ScheduleDay(items, DayWindow(landing, takeoff))
           IN  /\ day \in Seq(Item) /\ DayInOrder(day)
               /\ CanArrive(landing) => StartsAt(day, landing + ArrivalBuffer)
<1> DEFINE window == DayWindow(landing, takeoff)
           day == ScheduleDay(items, window)
<1>1. /\ window.start \in Int /\ window.end \in Int
      /\ window.start >= 0 /\ window.end <= 21 * 60 /\ window.end < 24 * 60
      /\ landing = None => window.start = 9 * 60
      /\ landing # None => window.start >= landing + ArrivalBuffer
      /\ CanArrive(landing) => window.start < 24 * 60
  BY DayWindowTypes DEF DayStart, DayEnd, CanArrive
<1>2. landing # None /\ items # <<>> /\ ClosesAtAirport(items) => Len(day) = 1
  OBVIOUS
<1> HIDE DEF window
<1>3. day \in Seq(Item) /\ Linked(day)
  BY <1>1, ScheduleDayTypes, ScheduleDayLinked
<1>4. ASSUME items # <<>>, ClosesAtAirport(items), landing # None
      PROVE  Len(Closed(items, window).kept) = 0
  <2> DEFINE k == Closed(items, window).kept
  <2>1. Len(day) = Len(k) + 1
    BY <1>1, <1>4, ScheduleDayEnds
  <2>2. Len(k) \in Nat
    <3>1. k \in Seq(Item)
      BY <1>1, <1>4, ClosedIs DEF WellFormed, DayState
    <3> HIDE DEF k
    <3> QED BY <3>1
  <2> HIDE DEF k, day
  <2> QED BY <1>2, <1>4, <2>1, <2>2 DEF k
<1>5. ASSUME items # <<>>, ClosesAtAirport(items), ShortLegs, landing = None
      PROVE  Slack(items, window)
  <2>1. \A i \in 1 .. Len(items) : Travel(items[i]) \in Nat /\ Travel(items[i]) < 180
    BY <1>5, ShortTravel
  <2>2. window.start = 9 * 60
    BY <1>1, <1>5
  <2>3. \A i \in 1 .. Len(items) : /\ window.start + Travel(items[i]) < 24 * 60
                                   /\ window.end + Travel(items[i]) < 24 * 60
    BY <1>1, <2>1, <2>2
  <2> QED BY <2>3 DEF Slack
<1>6. ASSUME ShortLegs \/ landing # None
      PROVE  /\ Spread(day)
             /\ window.start < 24 * 60 => StartsAt(day, window.start)
  <2>1. items # <<>> /\ ClosesAtAirport(items) =>
            Slack(items, window) \/ Len(Closed(items, window).kept) = 0
    BY <1>4, <1>5, <1>6
  <2> QED BY <1>1, <2>1, ScheduleDayTimes
<1>7. ASSUME CanArrive(landing) PROVE StartsAt(day, landing + ArrivalBuffer)
  <2>1. landing # None /\ landing \in Int
    BY <1>7 DEF CanArrive, ClockTimes
  <2>2. StartsAt(day, window.start)
    BY <1>1, <1>6, <1>7, <2>1
  <2>3. \A i \in 1 .. Len(day) : day[i].at \in Int
    <3>1. \A i \in 1 .. Len(day) : day[i] \in Item
      BY <1>3, ElementOfSeq
    <3> QED BY <3>1, ItemTypes
  <2> HIDE DEF day
  <2>4. \A i \in 1 .. Len(day) : day[i].at >= landing + ArrivalBuffer
    BY <1>1, <2>1, <2>2, <2>3 DEF StartsAt, ArrivalBuffer
  <2> QED BY <2>4 DEF StartsAt
<1> QED BY <1>3, <1>6, <1>7 DEF window, DayInOrder

\* The rows of any day of a new itinerary.
LEMMA BuiltDayTypes ==
    ASSUME NEW d \in Days, NEW route, NEW found, NEW flight \in Flights,
           \A c \in Cities : route[c] \in RoutesThrough(TopSights(c))
    PROVE  BuildDayPlan(route, found, flight)[d] \in Seq(Item)
<1> DEFINE items == ToItems(Stops(d, route, found))
           landing == IF d = 1 THEN flight.landing ELSE None
           takeoff == IF d = Max(Days) THEN flight.takeoff ELSE None
<1>1. items \in Seq(Stop)
  BY StopsTypes, ToItemsTypes
<1>2. landing \in ClockTimes \cup {None} /\ takeoff \in ClockTimes \cup {None}
  BY FlightTypes
<1>3. BuildDayPlan(route, found, flight)[d] = ScheduleDay(items, DayWindow(landing, takeoff))
  BY DEF BuildDayPlan
<1> HIDE DEF items, landing, takeoff
<1>4. DayWindow(landing, takeoff).start \in Int /\ DayWindow(landing, takeoff).end \in Int
  BY <1>2, DayWindowTypes
<1> QED BY <1>1, <1>3, <1>4, ScheduleDayTypes

-----------------------------------------------------------------------------
(* The names of the rows. *)

Typed(days) ==
    /\ days = [d \in DOMAIN days |-> days[d]]
    /\ DOMAIN days \subseteq Days
    /\ \A d \in DOMAIN days : days[d] \in Seq(Item)

NameOf(days, x) == days[x[1]][x[2]].name

\* A row's place in the plan: the day, and the index in it.
LEMMA RowsAre ==
    ASSUME NEW days, Typed(days)
    PROVE  /\ \A d \in DOMAIN days : /\ d \in Nat /\ Len(days[d]) \in Nat
                                     /\ days[d] \in Seq(Item)
                                     /\ DOMAIN days[d] = 1 .. Len(days[d])
                                     /\ \A i \in 1 .. Len(days[d]) :
                                           /\ <<d, i>> \in Rows(days)
                                           /\ NameOf(days, <<d, i>>) = days[d][i].name
           /\ \A x \in Rows(days) :
                 /\ x = <<x[1], x[2]>> /\ x[1] \in DOMAIN days /\ x[1] \in Nat
                 /\ x[2] \in 1 .. Len(days[x[1]]) /\ x[2] \in Nat
                 /\ days[x[1]][x[2]] \in Item
<1>1. ASSUME NEW d \in DOMAIN days
      PROVE  /\ d \in Nat /\ Len(days[d]) \in Nat /\ days[d] \in Seq(Item)
             /\ DOMAIN days[d] = 1 .. Len(days[d])
             /\ \A i \in 1 .. Len(days[d]) : days[d][i] \in Item
  <2>1. d \in Nat
    BY TripDays DEF Typed
  <2>2. days[d] \in Seq(Item)
    BY DEF Typed
  <2> QED BY <2>1, <2>2, LenProperties, ElementOfSeq
<1>2. ASSUME NEW d \in DOMAIN days, NEW i \in 1 .. Len(days[d])
      PROVE  <<d, i>> \in Rows(days) /\ NameOf(days, <<d, i>>) = days[d][i].name
  <2>1. <<d, i>> \in {d} \X DOMAIN days[d]
    BY <1>1
  <2> QED BY <2>1 DEF Rows, NameOf
<1>3. ASSUME NEW x \in Rows(days)
      PROVE  /\ x = <<x[1], x[2]>> /\ x[1] \in DOMAIN days
             /\ x[2] \in 1 .. Len(days[x[1]])
  <2>1. PICK d \in DOMAIN days : x \in {d} \X DOMAIN days[d]
    BY DEF Rows
  <2>2. x = <<x[1], x[2]>> /\ x[1] = d /\ x[2] \in DOMAIN days[d]
    BY <2>1
  <2> QED BY <1>1, <2>2
<1> QED BY <1>1, <1>2, <1>3

\* The names of a day, and of the plan, are those of its rows.
LEMMA NamesAre ==
    ASSUME NEW days, Typed(days)
    PROVE  /\ \A d \in DOMAIN days :
                 /\ Names(days[d]) \in Seq(Places) /\ Len(Names(days[d])) = Len(days[d])
                 /\ \A i \in 1 .. Len(days[d]) : Names(days[d])[i] = days[d][i].name
           /\ \A p : p \in AllNames(days) <=> \E x \in Rows(days) : NameOf(days, x) = p
<1>1. ASSUME NEW d \in DOMAIN days
      PROVE  /\ Names(days[d]) \in Seq(Places) /\ Len(Names(days[d])) = Len(days[d])
             /\ DOMAIN Names(days[d]) = 1 .. Len(days[d])
             /\ \A i \in 1 .. Len(days[d]) : Names(days[d])[i] = days[d][i].name
  <2> DEFINE day == days[d]
             names == Names(day)
  <2>1. /\ Len(day) \in Nat /\ DOMAIN day = 1 .. Len(day)
        /\ \A i \in 1 .. Len(day) : day[i] \in Item
    <3>1. Len(day) \in Nat /\ DOMAIN day = 1 .. Len(day) /\ day \in Seq(Item)
      BY RowsAre
    <3> QED BY <3>1, ElementOfSeq
  <2> HIDE DEF day
  <2>2. names = [i \in 1 .. Len(day) |-> day[i].name]
    BY <2>1 DEF Names
  <2>3. \A r \in Item : r.name \in Places
    BY DEF Item, Places
  <2>4. names \in [1 .. Len(day) -> Places]
    BY <2>1, <2>2, <2>3
  <2> HIDE DEF names
  <2>5. names \in Seq(Places) /\ Len(names) = Len(day)
    BY <2>1, <2>4
  <2>6. DOMAIN names = 1 .. Len(day) /\ \A i \in 1 .. Len(day) : names[i] = day[i].name
    BY <2>2
  <2> QED BY <2>5, <2>6 DEF day, names
<1>2. ASSUME NEW p \in AllNames(days)
      PROVE  \E x \in Rows(days) : NameOf(days, x) = p
  <2>1. PICK d \in DOMAIN days : p \in ToSet(Names(days[d]))
    BY DEF AllNames
  <2>2. PICK i \in 1 .. Len(days[d]) : p = Names(days[d])[i]
    BY <1>1, <2>1 DEF ToSet
  <2>3. p = days[d][i].name
    BY <1>1, <2>2
  <2>4. <<d, i>> \in Rows(days) /\ NameOf(days, <<d, i>>) = p
    BY <2>3, RowsAre
  <2> QED BY <2>4
<1>3. ASSUME NEW x \in Rows(days)
      PROVE  NameOf(days, x) \in AllNames(days)
  <2>1. x[1] \in DOMAIN days /\ x[2] \in 1 .. Len(days[x[1]])
    BY RowsAre
  <2>2. NameOf(days, x) = Names(days[x[1]])[x[2]] /\ x[2] \in DOMAIN Names(days[x[1]])
    BY <1>1, <2>1 DEF NameOf
  <2>3. NameOf(days, x) \in ToSet(Names(days[x[1]]))
    BY <2>2 DEF ToSet
  <2> QED BY <2>1, <2>3 DEF AllNames
<1> QED BY <1>1, <1>2, <1>3

\* As many names as rows: no name is on two of them.
LEMMA NamesAreUnique ==
    ASSUME NEW days, Typed(days), Cardinality(AllNames(days)) = Cardinality(Rows(days))
    PROVE  \A x, y \in Rows(days) : NameOf(days, x) = NameOf(days, y) => x = y
<1> DEFINE name == [x \in Rows(days) |-> NameOf(days, x)]
<1>1. IsFiniteSet(Rows(days))
  <2> DEFINE last == CHOOSE n \in Nat : \A d \in DOMAIN days : Len(days[d]) <= n
             parts == {{d} \X DOMAIN days[d] : d \in DOMAIN days}
  <2>1. IsFiniteSet(DOMAIN days)
    <3>1. IsFiniteSet(1 .. Max(Days))
      BY TripDays, FS_Interval
    <3>2. DOMAIN days \subseteq 1 .. Max(Days)
      BY TripDays DEF Typed
    <3> QED BY <3>1, <3>2, FS_Subset
  <2>2. IsFiniteSet(parts)
    <3> DEFINE part == [d \in DOMAIN days |-> {d} \X DOMAIN days[d]]
    <3>1. part \in Surjection(DOMAIN days, parts)
      BY DEF Surjection
    <3> HIDE DEF part, parts
    <3> QED BY <2>1, <3>1, FS_Surjection
  <2>3. ASSUME NEW part \in parts PROVE IsFiniteSet(part)
    <3>1. PICK d \in DOMAIN days : part = {d} \X DOMAIN days[d]
      OBVIOUS
    <3>2. IsFiniteSet(DOMAIN days[d])
      BY RowsAre, FS_Interval
    <3>3. IsFiniteSet({d})
      BY FS_Singleton
    <3> QED BY <3>1, <3>2, <3>3, FS_Product
  <2> HIDE DEF parts
  <2>4. IsFiniteSet(UNION parts)
    BY <2>2, <2>3, FS_UNION
  <2> QED BY <2>4 DEF Rows, parts
<1>2. name \in Surjection(Rows(days), AllNames(days))
  <2>1. name \in [Rows(days) -> AllNames(days)]
    BY NamesAre
  <2>2. \A p \in AllNames(days) : \E x \in Rows(days) : name[x] = p
    BY NamesAre
  <2> HIDE DEF name
  <2> QED BY <2>1, <2>2 DEF Surjection
<1>3. name \in Injection(Rows(days), AllNames(days))
  <2> HIDE DEF name
  <2> QED BY <1>1, <1>2, FS_Surjection
<1>4. \A x, y \in Rows(days) : name[x] = name[y] => x = y
  <2> HIDE DEF name
  <2> QED BY <1>3 DEF Injection, IsInjective
<1> QED BY <1>4

\* item_by_name finds a row of that name; the candidate is one of the pool, and no
\* airport.
LEMMA RowByName ==
    ASSUME NEW days, Typed(days), NEW p, p \in AllNames(days) \cup Pool
    PROVE  /\ ItemByName(days, p) \in Stop
           /\ ItemByName(days, p).name = p
           /\ IsAirport(ItemByName(days, p)) =>
                 \E x \in Rows(days) : ItemByName(days, p) = days[x[1]][x[2]]
           /\ p \in AllNames(days) => ItemByName(days, p) \in Item
<1> DEFINE at == {x \in Rows(days) : days[x[1]][x[2]].name = p}
           Latest1(x) == \A y \in at : y[1] < x[1] \/ (y[1] = x[1] /\ y[2] <= x[2])
           last == CHOOSE x \in at : \A y \in at : \/ y[1] < x[1]
                                                   \/ y[1] = x[1] /\ y[2] <= x[2]
<1>1. CASE at = {}
  <2>1. ItemByName(days, p) = CandidateItem(p)
    BY <1>1 DEF ItemByName
  <2>2. p \notin AllNames(days)
    BY <1>1, NamesAre DEF NameOf
  <2>3. p \in Places
    BY <2>2, ItineraryAssumption
  <2>4. Stay[p] \in Nat
    BY <2>3, ItineraryAssumption
  <2>5. CandidateItem(p) \in Stop /\ CandidateItem(p).name = p /\ ~ IsAirport(CandidateItem(p))
    BY <2>3, <2>4 DEF CandidateItem, Stop, IsAirport
  <2> QED BY <2>1, <2>2, <2>3, <2>5
<1>2. CASE at # {}
  <2> DEFINE found == {x[1] : x \in at}
             d == Max(found)
             indices == {i \in Nat : <<d, i>> \in at}
             i == Max(indices)
  <2>1. \A x \in at : /\ x = <<x[1], x[2]>> /\ x[1] \in Nat /\ x[1] <= Max(Days)
                      /\ x[2] \in Nat /\ x[2] <= Len(days[x[1]])
    <3>1. \A x \in at : /\ x = <<x[1], x[2]>> /\ x[1] \in DOMAIN days
                        /\ x[2] \in 1 .. Len(days[x[1]]) /\ x[2] \in Nat /\ x[1] \in Nat
      BY RowsAre
    <3>2. \A x \in at : x[1] \in 1 .. Max(Days) /\ Max(Days) \in Nat
      BY <3>1, TripDays DEF Typed
    <3>3. \A x \in at : Len(days[x[1]]) \in Nat
      BY <3>1, RowsAre
    <3> HIDE DEF at
    <3> QED BY <3>1, <3>2, <3>3
  <2>2. d \in found /\ \A e \in found : e <= d
    <3>1. found \in SUBSET Nat /\ found # {} /\ \A e \in found : e <= Max(Days)
      BY <1>2, <2>1
    <3> HIDE DEF found
    <3> QED BY <3>1, MaxIsGreatest, TripDays
  <2> HIDE DEF d
  <2>3. PICK z \in at : z[1] = d
    BY <2>2
  <2>4. i \in indices /\ \A j \in indices : j <= i
    <3>1. z[2] \in indices
      BY <2>1, <2>3
    <3>2. \A j \in indices : j <= Len(days[d])
      <4> TAKE j \in indices
      <4>1. <<d, j>> \in at
        OBVIOUS
      <4> HIDE DEF at
      <4> QED BY <2>1, <4>1
    <3>3. Len(days[d]) \in Nat
      BY <2>3, RowsAre
    <3>4. indices \in SUBSET Nat /\ indices # {}
      BY <3>1
    <3> HIDE DEF indices
    <3> QED BY <3>2, <3>3, <3>4, MaxIsGreatest
  <2> HIDE DEF i
  <2>5. <<d, i>> \in at
    BY <2>4
  <2>6. Latest1(<<d, i>>)
    <3> SUFFICES ASSUME NEW y \in at PROVE y[1] < d \/ (y[1] = d /\ y[2] <= i)
      OBVIOUS
    <3>1. y[1] \in Nat /\ y[2] \in Nat /\ y = <<y[1], y[2]>>
      BY <2>1
    <3>2. y[1] <= d /\ d \in Nat
      BY <2>1, <2>2, <2>3
    <3>3. y[1] = d => y[2] \in indices
      BY <3>1
    <3> QED BY <2>4, <3>1, <3>2, <3>3
  <2>7. last \in at
    <3> HIDE DEF at
    <3> QED BY <2>5, <2>6
  <2>8. ItemByName(days, p) = days[last[1]][last[2]]
    BY <1>2 DEF ItemByName
  <2> HIDE DEF last
  <2>9. last \in Rows(days) /\ days[last[1]][last[2]].name = p
    BY <2>7
  <2>10. last[1] \in DOMAIN days /\ last[2] \in 1 .. Len(days[last[1]]) /\ days[last[1]][last[2]] \in Item
    BY <2>9, RowsAre
  <2> QED BY <2>8, <2>9, <2>10, ItemIsStop
<1> QED BY <1>1, <1>2

\* ... and the one row of that name, if there are no two.
LEMMA RowOfUniqueName ==
    ASSUME NEW days, Typed(days), Cardinality(AllNames(days)) = Cardinality(Rows(days)),
           NEW x \in Rows(days)
    PROVE  ItemByName(days, NameOf(days, x)) = days[x[1]][x[2]]
<1> DEFINE p == NameOf(days, x)
           at == {y \in Rows(days) : days[y[1]][y[2]].name = p}
           last == CHOOSE z \in at : \A y \in at : \/ y[1] < z[1]
                                                   \/ y[1] = z[1] /\ y[2] <= z[2]
<1>1. at = {x}
  <2>1. x \in at
    BY DEF NameOf
  <2>2. \A y \in at : y = x
    BY NamesAreUnique DEF NameOf
  <2> HIDE DEF at
  <2> QED BY <2>1, <2>2
<1>2. x[1] \in Nat /\ x[2] \in Nat
  BY RowsAre
<1>3. ItemByName(days, p) = days[last[1]][last[2]]
  <2> HIDE DEF p
  <2> QED BY <1>1 DEF ItemByName
<1>4. last = x
  <2> HIDE DEF at
  <2> QED BY <1>1, <1>2
<1> QED BY <1>3, <1>4

-----------------------------------------------------------------------------
(* Edits, and other flights. *)

\* The editor leaves days out but adds none, and writes names in them.
LEMMA AnswerDays ==
    ASSUME NEW days, Typed(days), NEW answer \in Answers(days)
    PROVE  /\ DOMAIN answer \subseteq DOMAIN days
           /\ \A d \in DOMAIN answer : \E T : answer[d] \in Seq(T)
<1> DEFINE plain == [d \in DOMAIN days |-> Names(days[d])]
           names == AllNames(days) \cup Candidates(days) \cup {Unknown}
           T == Places \cup names
           fine(base) == DOMAIN base = DOMAIN days /\ \A d \in DOMAIN days : base[d] \in Seq(T)
           without ==
              UNION {{[plain EXCEPT ![d] = RemoveAt(@, i)] :
                         i \in DOMAIN plain[d]} : d \in DOMAIN plain}
           left(e) == [d \in DOMAIN plain \ {e} |-> plain[d]]
           with(base) ==
              UNION {UNION {{[base EXCEPT ![d] = InsertAt(@, i, p)] :
                              i \in 1 .. Len(base[d]) + 1} : p \in names} : d \in DOMAIN base}
<1>1. fine(plain)
  <2>1. \A d \in DOMAIN days : Names(days[d]) \in Seq(Places)
    BY NamesAre
  <2>2. Seq(Places) \subseteq Seq(T)
    BY SeqMonotonic
  <2> QED BY <2>1, <2>2
<1>2. ASSUME NEW base \in without PROVE fine(base)
  <2> HIDE DEF plain, fine
  <2> PICK d \in DOMAIN plain : \E i \in DOMAIN plain[d] : base = [plain EXCEPT ![d] = RemoveAt(@, i)]
    OBVIOUS
  <2> PICK i \in DOMAIN plain[d] : base = [plain EXCEPT ![d] = RemoveAt(@, i)]
    OBVIOUS
  <2> USE DEF fine
  <2> HIDE DEF T
  <2>1. plain[d] \in Seq(T) /\ i \in 1 .. Len(plain[d]) /\ Len(plain[d]) \in Nat
    BY <1>1
  <2> HIDE DEF plain
  <2>2. RemoveAt(plain[d], i) \in Seq(T)
    <3>1. \A j \in 1 .. Len(plain[d]) : plain[d][j] \in T
      BY <2>1, ElementOfSeq
    <3>2. SubSeq(plain[d], 1, i - 1) \in Seq(T)
      BY <2>1, <3>1, SubSeqProperties
    <3>3. SubSeq(plain[d], i + 1, Len(plain[d])) \in Seq(T)
      BY <2>1, <3>1, SubSeqProperties
    <3> QED BY <3>2, <3>3, ConcatProperties DEF RemoveAt
  <2> QED BY <1>1, <2>2
<1>3. ASSUME NEW base, fine(base), NEW answer1 \in with(base) PROVE fine(answer1)
  <2>1. PICK d \in DOMAIN base, p \in names :
           answer1 \in {[base EXCEPT ![d] = InsertAt(@, i, p)] : i \in 1 .. Len(base[d]) + 1}
    <3> HIDE DEF names, fine
    <3> QED OBVIOUS
  <2>2. PICK i \in 1 .. Len(base[d]) + 1 : answer1 = [base EXCEPT ![d] = InsertAt(@, i, p)]
    <3> HIDE DEF names, fine
    <3> QED BY <2>1
  <2>3. p \in T
    OBVIOUS
  <2> HIDE DEF T
  <2>4. base[d] \in Seq(T) /\ Len(base[d]) \in Nat
    BY <1>3
  <2>5. InsertAt(base[d], i, p) \in Seq(T)
    <3>1. \A j \in 1 .. Len(base[d]) : base[d][j] \in T
      BY <2>4, ElementOfSeq
    <3>2. SubSeq(base[d], 1, i - 1) \in Seq(T)
      BY <2>4, <3>1, SubSeqProperties
    <3>3. SubSeq(base[d], i, Len(base[d])) \in Seq(T)
      BY <2>4, <3>1, SubSeqProperties
    <3>4. <<p>> \in Seq(T)
      BY <2>3
    <3> QED BY <3>2, <3>3, <3>4, ConcatProperties DEF InsertAt
  <2> QED BY <1>3, <2>2, <2>5
<1>4. Answers(days) = without \cup (UNION {with(base) : base \in without \cup {plain}})
          \cup {left(e) : e \in DOMAIN plain}
  BY DEF Answers
<1> HIDE DEF without, with
<1>5. CASE answer \in without
  <2>1. fine(answer)
    BY <1>2, <1>5
  <2> QED BY <2>1
<1>6. CASE \E base \in without \cup {plain} : answer \in with(base)
  <2>1. fine(answer)
    <3> HIDE DEF plain, T, fine
    <3> QED BY <1>1, <1>2, <1>3, <1>6
  <2> QED BY <2>1
<1>7. CASE \E e \in DOMAIN plain : answer = left(e)
  <2>1. PICK e \in DOMAIN plain : answer = left(e)
    BY <1>7
  <2>2. DOMAIN answer \subseteq DOMAIN days /\ \A d \in DOMAIN answer : answer[d] = plain[d]
    BY <2>1
  <2> HIDE DEF plain, T
  <2> QED BY <1>1, <2>2
<1>8. answer \in without \/ (\E base \in without \cup {plain} : answer \in with(base))
        \/ \E e \in DOMAIN plain : answer = left(e)
  <2> DEFINE changed == UNION {with(base) : base \in without \cup {plain}}
             shorter == {left(e) : e \in DOMAIN plain}
  <2>1. answer \in changed => \E base \in without \cup {plain} : answer \in with(base)
    <3> HIDE DEF plain
    <3> QED OBVIOUS
  <2>2. answer \in shorter => \E e \in DOMAIN plain : answer = left(e)
    <3> HIDE DEF plain, left
    <3> QED OBVIOUS
  <2>3. answer \in without \cup changed \cup shorter
    <3> HIDE DEF plain, left
    <3> QED BY <1>4, Zenon
  <2> HIDE DEF plain, left, changed, shorter
  <2> QED BY <2>1, <2>2, <2>3
<1> QED BY <1>5, <1>6, <1>7, <1>8

\* An edit's window is made of clock times, its start that of the airport's row.
LEMMA DayEditWindowTypes ==
    ASSUME NEW day \in Seq(Item)
    PROVE  LET window == DayEditWindow(day)
           IN  /\ window.start \in ClockTimes /\ window.end \in ClockTimes
               /\ day # <<>> /\ IsAirport(Head(day)) => window.start = Head(day).at
<1>1. day # <<>> => Head(day) \in Item /\ Last(day) \in Item
  <2>1. day # <<>> => Len(day) \in Nat /\ Len(day) >= 1
    BY EmptySeq, LenProperties
  <2>2. day # <<>> => Head(day) = day[1] /\ Last(day) = day[Len(day)]
    BY DEF Last
  <2> QED BY <2>1, <2>2, ElementOfSeq
<1>2. \A r \in Item : r.at \in ClockTimes
  BY DEF Item, ClockTimes
<1>3. DayStart \in ClockTimes /\ DayEnd \in ClockTimes
  BY DEF DayStart, DayEnd, ClockTimes
<1>4. /\ DayEditWindow(day).start =
            IF day # <<>> /\ IsAirport(Head(day)) THEN Head(day).at ELSE DayStart
      /\ DayEditWindow(day).end =
            IF day # <<>> /\ IsAirport(Last(day)) THEN Last(day).at ELSE DayEnd
  BY DEF DayEditWindow
<1> QED BY <1>1, <1>2, <1>3, <1>4

\* The rows an edit puts together: typed, and without times and travel.
LEMMA ReassembledRows ==
    ASSUME NEW rows \in Seq(Stop)
    PROVE  /\ Reassembled(rows) \in Seq(Stop)
           /\ NoStayAtHead(rows) => NoStayAtHead(Reassembled(rows))
           /\ Linked(Reassembled(rows))
           /\ \A i \in 1 .. Len(Reassembled(rows)) : Travel(Reassembled(rows)[i]) = 0
<1> DEFINE items == Reassembled(rows)
<1>1. /\ Len(rows) \in Nat /\ DOMAIN rows = 1 .. Len(rows)
      /\ \A i \in 1 .. Len(rows) : rows[i] \in Stop
  BY LenProperties, ElementOfSeq
<1>2. items = [i \in 1 .. Len(rows) |-> [rows[i] EXCEPT !.at = None, !.next = None]]
  BY <1>1 DEF Reassembled
<1> HIDE DEF items
<1>3. ASSUME NEW i \in 1 .. Len(rows)
      PROVE  /\ items[i] \in Stop /\ items[i].name = rows[i].name
             /\ items[i].airport = rows[i].airport
             /\ items[i].stay = rows[i].stay /\ items[i].next = None
  <2>1. rows[i] \in Stop
    BY <1>1
  <2>2. items[i] = [rows[i] EXCEPT !.at = None, !.next = None]
    BY <1>2
  <2> QED BY <2>1, <2>2 DEF Stop
<1>4. items \in [1 .. Len(rows) -> Stop]
  BY <1>2, <1>3
<1>5. items \in Seq(Stop) /\ Len(items) = Len(rows)
  BY <1>1, <1>4
<1>6. NoStayAtHead(rows) => NoStayAtHead(items)
  <2> SUFFICES ASSUME items # <<>>
               PROVE  rows # <<>> /\ items[1].stay = rows[1].stay
                      /\ (OpensAtAirport(items) => OpensAtAirport(rows))
    BY DEF NoStayAtHead
  <2>1. Len(rows) >= 1 /\ rows # <<>> /\ 1 \in 1 .. Len(rows)
    BY <1>1, <1>5, EmptySeq, LenProperties
  <2>2. Head(items) = items[1] /\ Head(rows) = rows[1]
    BY <1>5, <2>1
  <2> QED BY <1>3, <2>1, <2>2 DEF OpensAtAirport, IsAirport
<1>7. Linked(items)
  <2>1. \A i \in 1 .. Len(items) - 1 : items[i].next = None
    BY <1>1, <1>3, <1>5
  <2>2. Len(items) > 0 => items[Len(items)].next = None
    BY <1>1, <1>3, <1>5
  <2> QED BY <2>1, <2>2 DEF Linked
<1>8. \A i \in 1 .. Len(items) : Travel(items[i]) = 0
  BY <1>3, <1>5 DEF Travel
<1> QED BY <1>5, <1>6, <1>7, <1>8 DEF items

\* A day that is scheduled again: timed from its airports, nothing overlaps.
LEMMA RescheduledDay ==
    ASSUME NEW rows \in Seq(Stop), NEW old \in Seq(Item)
    PROVE  LET day == ScheduleDay(Reassembled(rows), DayEditWindow(old))
           IN  /\ day \in Seq(Item)
               /\ NoStayAtHead(rows) =>
                     /\ DayInOrder(day)
                     /\ old # <<>> /\ IsAirport(Head(old)) => StartsAt(day, Head(old).at)
<1> DEFINE items == Reassembled(rows)
           window == DayEditWindow(old)
           day == ScheduleDay(items, window)
<1>1. /\ items \in Seq(Stop) /\ Linked(items)
      /\ NoStayAtHead(rows) => NoStayAtHead(items)
      /\ \A i \in 1 .. Len(items) : Travel(items[i]) = 0
  BY ReassembledRows
<1>2. /\ window.start \in ClockTimes /\ window.end \in ClockTimes
      /\ old # <<>> /\ IsAirport(Head(old)) => window.start = Head(old).at
  BY DayEditWindowTypes
<1> HIDE DEF items, window
<1>3. /\ window.start \in Int /\ window.end \in Int
      /\ window.start >= 0 /\ window.start < 24 * 60 /\ window.end < 24 * 60
  <2>1. \A t \in ClockTimes : t \in Int /\ t >= 0 /\ t < 24 * 60
    BY DEF ClockTimes
  <2> QED BY <1>2, <2>1
<1>4. Slack(items, window)
  <2>1. \A i \in 1 .. Len(items) : /\ window.start + Travel(items[i]) < 24 * 60
                                   /\ window.end + Travel(items[i]) < 24 * 60
    BY <1>1, <1>3
  <2> QED BY <2>1 DEF Slack
<1>5. day \in Seq(Item) /\ Linked(day)
  BY <1>1, <1>3, ScheduleDayTypes, ScheduleDayLinked
<1>6. NoStayAtHead(rows) => Spread(day) /\ StartsAt(day, window.start)
  BY <1>1, <1>3, <1>4, ScheduleDayTimes
<1> QED BY <1>2, <1>5, <1>6 DEF DayInOrder, items, window

\* The names of an answer that are known, and the rows of those names.
Known(days, names) == Only(names, AllNames(days) \cup Pool)
KnownRows(days, names) ==
    [i \in DOMAIN Known(days, names) |-> ItemByName(days, Known(days, names)[i])]

\* An edited day keeps its rows, or is scheduled again.
LEMMA EditedDayIs ==
    ASSUME NEW days, Typed(days), NEW d \in DOMAIN days, NEW T, NEW names \in Seq(T)
    PROVE  LET known == Known(days, names)
               rows == KnownRows(days, names)
               day == EditedDay(days, d, names)
           IN  /\ rows \in Seq(Stop)
               /\ \A i \in 1 .. Len(rows) : IsAirport(rows[i]) =>
                     \E x \in Rows(days) : rows[i] = days[x[1]][x[2]]
               /\ day = rows \/ day = ScheduleDay(Reassembled(rows), DayEditWindow(days[d]))
               /\ known # Names(days[d]) =>
                     day = ScheduleDay(Reassembled(rows), DayEditWindow(days[d]))
               /\ known = Names(days[d]) =>
                     /\ day = rows /\ day \in Seq(Item) /\ Len(day) = Len(days[d])
                     /\ \A i \in 1 .. Len(days[d]) : day[i] = ItemByName(days, days[d][i].name)
<1> DEFINE known == Known(days, names)
           rows == KnownRows(days, names)
           day == EditedDay(days, d, names)
<1>1. known \in Seq(AllNames(days) \cup Pool)
  <2>1. known \in Seq((AllNames(days) \cup Pool) \cap T)
    BY OnlyTheSet DEF Known
  <2> HIDE DEF known
  <2> QED BY <2>1, SeqMonotonic
<1>2. day = IF known = Names(days[d]) THEN rows
            ELSE ScheduleDay(Reassembled(rows), DayEditWindow(days[d]))
  BY DEF EditedDay, Known, KnownRows
<1> HIDE DEF known, day
<1>3. /\ Len(known) \in Nat /\ DOMAIN known = 1 .. Len(known)
      /\ \A i \in 1 .. Len(known) : known[i] \in AllNames(days) \cup Pool
  BY <1>1, LenProperties, ElementOfSeq
<1>4. \A i \in 1 .. Len(known) : /\ rows[i] = ItemByName(days, known[i])
                                 /\ rows[i] \in Stop /\ rows[i].name = known[i]
                                 /\ IsAirport(rows[i]) =>
                                       \E x \in Rows(days) : rows[i] = days[x[1]][x[2]]
                                 /\ known[i] \in AllNames(days) => rows[i] \in Item
  BY <1>3, RowByName DEF KnownRows, known
<1>5. rows = [i \in 1 .. Len(known) |-> rows[i]]
  BY <1>3 DEF KnownRows, known
<1> HIDE DEF rows
<1>6. rows \in [1 .. Len(known) -> Stop]
  BY <1>4, <1>5
<1>7. rows \in Seq(Stop) /\ Len(rows) = Len(known)
  BY <1>3, <1>6
<1>8. ASSUME known = Names(days[d])
      PROVE  /\ rows \in Seq(Item) /\ Len(rows) = Len(days[d])
             /\ \A i \in 1 .. Len(days[d]) : rows[i] = ItemByName(days, days[d][i].name)
  <2>1. Len(known) = Len(days[d]) /\ \A i \in 1 .. Len(days[d]) : known[i] = days[d][i].name
    BY <1>8, NamesAre
  <2>2. \A i \in 1 .. Len(days[d]) : known[i] \in AllNames(days)
    <3> TAKE i \in 1 .. Len(days[d])
    <3>1. <<d, i>> \in Rows(days) /\ NameOf(days, <<d, i>>) = days[d][i].name
      BY RowsAre
    <3> QED BY <2>1, <3>1, NamesAre
  <2>3. rows \in [1 .. Len(known) -> Item]
    BY <1>4, <1>5, <2>1, <2>2
  <2>4. rows \in Seq(Item)
    BY <1>3, <2>3
  <2> QED BY <1>4, <1>7, <2>1, <2>4
<1> QED BY <1>2, <1>4, <1>7, <1>8 DEF known, rows, day

\* Where no name is on two rows, keeping the names of a day keeps its rows.
LEMMA KeptDay ==
    ASSUME NEW days, Typed(days), Cardinality(AllNames(days)) = Cardinality(Rows(days)),
           NEW d \in DOMAIN days, NEW T, NEW names \in Seq(T),
           Known(days, names) = Names(days[d])
    PROVE  EditedDay(days, d, names) = days[d]
<1> DEFINE day == EditedDay(days, d, names)
<1>1. /\ day \in Seq(Item) /\ Len(day) = Len(days[d])
      /\ \A i \in 1 .. Len(days[d]) : day[i] = ItemByName(days, days[d][i].name)
  BY EditedDayIs
<1>2. days[d] \in Seq(Item)
  BY RowsAre
<1>3. ASSUME NEW i \in 1 .. Len(days[d]) PROVE day[i] = days[d][i]
  <2>1. <<d, i>> \in Rows(days) /\ NameOf(days, <<d, i>>) = days[d][i].name
    BY RowsAre
  <2>2. ItemByName(days, NameOf(days, <<d, i>>)) = days[d][i]
    BY <2>1, RowOfUniqueName
  <2> QED BY <1>1, <2>1, <2>2
<1> HIDE DEF day
<1>4. day = days[d]
  BY <1>1, <1>2, <1>3, SeqEqual
<1> QED BY <1>4 DEF day

\* A plan in order: no name is on two rows, and its days are in order.
Good(days) ==
    /\ Orderly(days)
    /\ \A d \in DOMAIN days : DayInOrder(days[d])

\* It starts after the landing.
OnArrival(days, flight) ==
    CanArrive(flight.landing) => StartsAt(days[1], flight.landing + ArrivalBuffer)

\* An airport's row has no stay, and on the first day it is the first.
LEMMA AirportsAtTheEnds ==
    ASSUME NEW days, Typed(days), Orderly(days),
           NEW x \in Rows(days), IsAirport(days[x[1]][x[2]])
    PROVE  days[x[1]][x[2]].stay = 0 /\ (x[1] = 1 => x[2] = 1)
<1>1. x \in {<<1, 1>>, <<Max(Days), Len(days[Max(Days)])>>} /\ days[x[1]][x[2]].stay = 0
  BY DEF Orderly
<1>2. Max(Days) # 1
  BY TripDays
<1>3. x[1] = 1 => x = <<1, 1>>
  BY <1>1, <1>2
<1> QED BY <1>1, <1>3

\* So no day starts with a stay at an airport, and the first day ends at none that is
\* not where it starts.
LEMMA OrderlyDay ==
    ASSUME NEW days, Typed(days), Orderly(days), NEW d \in DOMAIN days
    PROVE  /\ NoStayAtHead(days[d])
           /\ d = 1 /\ days[d] # <<>> => ~ ClosesAtAirport(days[d])
<1> SUFFICES ASSUME days[d] # <<>>
             PROVE  /\ OpensAtAirport(days[d]) => days[d][1].stay = 0
                    /\ d = 1 => ~ ClosesAtAirport(days[d])
  BY DEF NoStayAtHead
<1> DEFINE n == Len(days[d])
<1>1. /\ n \in Nat /\ n >= 1 /\ Head(days[d]) = days[d][1] /\ Last(days[d]) = days[d][n]
      /\ <<d, 1>> \in Rows(days) /\ <<d, n>> \in Rows(days)
  <2>1. days[d] \in Seq(Item)
    BY RowsAre
  <2>2. n \in Nat /\ n >= 1 /\ Head(days[d]) = days[d][1] /\ Last(days[d]) = days[d][n]
    BY <2>1, EmptySeq, LenProperties DEF Last
  <2>3. 1 \in 1 .. n /\ n \in 1 .. n
    BY <2>2
  <2> QED BY <2>2, <2>3, RowsAre
<1>2. OpensAtAirport(days[d]) => days[d][1].stay = 0
  BY <1>1, AirportsAtTheEnds DEF OpensAtAirport
<1>3. ASSUME d = 1, ClosesAtAirport(days[d]) PROVE FALSE
  <2>1. IsAirport(days[d][n]) /\ ~ (IsAirport(days[d][1]) /\ n = 1)
    BY <1>1, <1>3 DEF ClosesAtAirport, OpensAtAirport
  <2>2. n = 1
    <3> DEFINE x == <<d, n>>
    <3>1. x \in Rows(days) /\ x[1] = d /\ x[2] = n
      BY <1>1
    <3>2. IsAirport(days[x[1]][x[2]])
      BY <2>1, <3>1
    <3> HIDE DEF x
    <3>3. x[1] = 1 => x[2] = 1
      BY <3>1, <3>2, AirportsAtTheEnds
    <3> QED BY <3>1, <3>3, <1>3
  <2> QED BY <2>1, <2>2
<1> QED BY <1>2, <1>3

\* Stored days can be scheduled again.
LEMMA StopsOfRows == Seq(Item) \subseteq Seq(Stop)
BY ItemIsStop, SeqMonotonic

\* A day of a new itinerary that is orderly.
LEMMA BuiltDay ==
    ASSUME NEW d \in Days, NEW route, NEW found, NEW flight \in Flights,
           \A c \in Cities : route[c] \in RoutesThrough(TopSights(c)),
           NEW days, days = BuildDayPlan(route, found, flight), Typed(days), Orderly(days)
    PROVE  /\ DayInOrder(days[d])
           /\ d = 1 => OnArrival(days, flight)
<1> DEFINE items == ToItems(Stops(d, route, found))
           landing == IF d = 1 THEN flight.landing ELSE None
           takeoff == IF d = Max(Days) THEN flight.takeoff ELSE None
           window == DayWindow(landing, takeoff)
<1>1. items \in Seq(Stop) /\ Linked(items)
  BY StopsTypes, ToItemsTypes
<1>2. landing \in ClockTimes \cup {None} /\ takeoff \in ClockTimes \cup {None}
  BY FlightTypes
<1>3. days[d] = ScheduleDay(items, window) /\ d \in DOMAIN days
  BY DEF BuildDayPlan
<1>4. (d = 1 => landing = flight.landing) /\ (landing # None => d = 1)
  OBVIOUS
<1> HIDE DEF items, landing, takeoff
<1>5. window.start \in Int /\ window.end \in Int
  BY <1>2, DayWindowTypes
<1> HIDE DEF window
<1>6. Len(days[d]) \in Nat
  BY <1>3, RowsAre
<1>7. NoStayAtHead(items)
  <2> SUFFICES ASSUME items # <<>>, OpensAtAirport(items) PROVE items[1].stay = 0
    BY DEF NoStayAtHead
  <2>1. Len(days[d]) >= 1 /\ IsAirport(days[d][1]) /\ days[d][1].stay = items[1].stay
    BY <1>1, <1>3, <1>5, ScheduleDayEnds
  <2>2. <<d, 1>> \in Rows(days)
    BY <1>3, <1>6, <2>1, RowsAre
  <2> QED BY <2>1, <2>2, AirportsAtTheEnds
<1>8. ASSUME landing # None, items # <<>>, ClosesAtAirport(items)
      PROVE  Len(days[d]) = 1
  <2>1. IsAirport(days[d][Len(days[d])]) /\ Len(days[d]) = Len(Closed(items, window).kept) + 1
    BY <1>1, <1>3, <1>5, <1>8, ScheduleDayEnds
  <2>2. Len(days[d]) >= 1
    <3>1. Closed(items, window).kept \in Seq(Item)
      BY <1>1, <1>5, <1>8, ClosedIs DEF WellFormed, DayState
    <3>2. Len(Closed(items, window).kept) \in Nat
      BY <3>1
    <3> QED BY <2>1, <3>2
  <2>3. <<d, Len(days[d])>> \in Rows(days)
    BY <1>3, <1>6, <2>2, RowsAre
  <2> QED BY <1>4, <1>8, <2>1, <2>3, AirportsAtTheEnds
<1>9. /\ DayInOrder(days[d])
      /\ CanArrive(landing) => StartsAt(days[d], landing + ArrivalBuffer)
  BY <1>1, <1>2, <1>3, <1>7, <1>8, TimedDay DEF window
<1> QED BY <1>4, <1>9 DEF OnArrival

\* A new flight leaves a day, or times it again.
LEMMA RetimedDayTypes ==
    ASSUME NEW days, Typed(days), NEW d \in DOMAIN days,
           NEW old \in Flights, NEW new \in Flights
    PROVE  RetimedDay(days, d, old, new) \in Seq(Item)
<1>1. days[d] \in Seq(Item) /\ days[d] \in Seq(Stop)
  BY StopsOfRows DEF Typed
<1>2. ASSUME NEW landing \in ClockTimes \cup {None}, NEW takeoff \in ClockTimes \cup {None}
      PROVE  ScheduleDay(days[d], DayWindow(landing, takeoff)) \in Seq(Item)
  <2>1. DayWindow(landing, takeoff).start \in Int /\ DayWindow(landing, takeoff).end \in Int
    BY DayWindowTypes
  <2> QED BY <1>1, <2>1, ScheduleDayTypes
<1>3. /\ new.landing \in ClockTimes \cup {None}
      /\ new.takeoff \in ClockTimes \cup {None}
      /\ None \in ClockTimes \cup {None}
  BY FlightTypes
<1> QED BY <1>1, <1>2, <1>3 DEF RetimedDay

\* The days of a plan in order stay in order.
LEMMA RetimedDayInOrder ==
    ASSUME NEW days, Typed(days), NEW d \in DOMAIN days,
           NEW old \in Flights, NEW new \in Flights, Good(days)
    PROVE  LET day == RetimedDay(days, d, old, new)
           IN  /\ DayInOrder(day)
               /\ d = 1 /\ OnArrival(days, old) /\ CanArrive(new.landing) =>
                     StartsAt(day, new.landing + ArrivalBuffer)
<1> DEFINE first == d = 1 /\ new.landing # None /\ new.landing # old.landing
           last == d = Max(Days) /\ new.takeoff # None /\ new.takeoff # old.takeoff
           landing == IF first THEN new.landing ELSE None
           takeoff == IF last THEN new.takeoff ELSE None
           day == RetimedDay(days, d, old, new)
<1>1. DOMAIN days = Days /\ 1 # Max(Days)
  BY TripDays DEF Good, Orderly
<1>2. day = IF first \/ last THEN ScheduleDay(days[d], DayWindow(landing, takeoff)) ELSE days[d]
  BY <1>1, TripDays DEF RetimedDay
<1>3. landing \in ClockTimes \cup {None} /\ takeoff \in ClockTimes \cup {None}
  BY FlightTypes
<1>4. days[d] \in Seq(Stop) /\ NoStayAtHead(days[d]) /\ Linked(days[d]) /\ DayInOrder(days[d])
  BY StopsOfRows, OrderlyDay DEF Typed, Good, DayInOrder
<1>5. landing = None \/ days[d] = <<>> \/ ~ ClosesAtAirport(days[d])
  BY OrderlyDay DEF Good
<1>6. first => landing = new.landing
  OBVIOUS
<1>7. d = 1 => ~ last
  BY <1>1
<1>8. d = 1 /\ ~ first /\ CanArrive(new.landing) => new.landing = old.landing
  BY DEF CanArrive
<1> HIDE DEF landing, takeoff, day
<1>9. CASE first \/ last
  <2>1. /\ DayInOrder(day)
        /\ CanArrive(landing) => StartsAt(day, landing + ArrivalBuffer)
    BY <1>2, <1>3, <1>4, <1>5, <1>9, TimedDay
  <2>2. d = 1 => landing = new.landing
    BY <1>6, <1>7, <1>9
  <2> QED BY <2>1, <2>2 DEF day
<1>10. CASE ~ (first \/ last)
  <2>1. day = days[d]
    BY <1>2, <1>10
  <2>2. d = 1 /\ CanArrive(new.landing) => new.landing = old.landing
    BY <1>8, <1>10
  <2> HIDE DEF first, last
  <2>3. d = 1 /\ OnArrival(days, old) /\ CanArrive(new.landing) =>
            StartsAt(days[1], new.landing + ArrivalBuffer)
    BY <2>2 DEF OnArrival
  <2> QED BY <1>4, <2>1, <2>3 DEF day
<1> QED BY <1>9, <1>10

\* An edited day is well formed, whatever the answer.
LEMMA EditedDayTypes ==
    ASSUME NEW days, Typed(days), NEW d \in DOMAIN days, NEW T, NEW names \in Seq(T)
    PROVE  EditedDay(days, d, names) \in Seq(Item)
<1> DEFINE rows == KnownRows(days, names)
           day == EditedDay(days, d, names)
<1>1. /\ rows \in Seq(Stop)
      /\ Known(days, names) # Names(days[d]) =>
            day = ScheduleDay(Reassembled(rows), DayEditWindow(days[d]))
      /\ Known(days, names) = Names(days[d]) => day = rows /\ day \in Seq(Item)
  BY EditedDayIs
<1>2. days[d] \in Seq(Item)
  BY RowsAre
<1>3. ScheduleDay(Reassembled(rows), DayEditWindow(days[d])) \in Seq(Item)
  BY <1>1, <1>2, RescheduledDay
<1> QED BY <1>1, <1>3

\* An edited day of a plan in order is in order; it starts no earlier than the airport
\* that it started from.
LEMMA EditedDayInOrder ==
    ASSUME NEW days, Typed(days), NEW d \in DOMAIN days, NEW T, NEW names \in Seq(T),
           NEW flight \in Flights, Good(days)
    PROVE  LET day == EditedDay(days, d, names)
           IN  /\ DayInOrder(day)
               /\ d = 1 /\ ArrivesAtAirport(days) /\ OnArrival(days, flight)
                        /\ CanArrive(flight.landing) =>
                     StartsAt(day, flight.landing + ArrivalBuffer)
<1> DEFINE rows == KnownRows(days, names)
           day == EditedDay(days, d, names)
<1>1. CASE Known(days, names) = Names(days[d])
  <2>1. day = days[d]
    BY <1>1, KeptDay DEF Good, Orderly
  <2> QED BY <2>1 DEF Good, OnArrival
<1>2. CASE Known(days, names) # Names(days[d])
  <2>1. /\ rows \in Seq(Stop)
        /\ \A i \in 1 .. Len(rows) : IsAirport(rows[i]) =>
              \E x \in Rows(days) : rows[i] = days[x[1]][x[2]]
        /\ day = ScheduleDay(Reassembled(rows), DayEditWindow(days[d]))
    BY <1>2, EditedDayIs
  <2>2. days[d] \in Seq(Item)
    BY RowsAre
  <2> HIDE DEF rows, day
  <2>3. NoStayAtHead(rows)
    <3> SUFFICES ASSUME rows # <<>>, OpensAtAirport(rows) PROVE rows[1].stay = 0
      BY DEF NoStayAtHead
    <3>1. 1 \in 1 .. Len(rows) /\ Head(rows) = rows[1]
      BY <2>1, EmptySeq, LenProperties
    <3>2. PICK x \in Rows(days) : rows[1] = days[x[1]][x[2]]
      BY <2>1, <3>1 DEF OpensAtAirport
    <3> QED BY <3>1, <3>2, AirportsAtTheEnds DEF OpensAtAirport, Good
  <2>4. /\ day \in Seq(Item) /\ DayInOrder(day)
        /\ days[d] # <<>> /\ IsAirport(Head(days[d])) => StartsAt(day, Head(days[d]).at)
    BY <2>1, <2>2, <2>3, RescheduledDay
  <2>5. ASSUME d = 1, ArrivesAtAirport(days), OnArrival(days, flight), CanArrive(flight.landing)
        PROVE  StartsAt(day, flight.landing + ArrivalBuffer)
    <3>1. days[1] # <<>> /\ IsAirport(Head(days[1]))
      BY <2>5 DEF ArrivesAtAirport
    <3>2. 1 \in 1 .. Len(days[1]) /\ Head(days[1]) = days[1][1] /\ days[1][1] \in Item
      BY <2>2, <2>5, <3>1, EmptySeq, LenProperties, ElementOfSeq
    <3>3. Head(days[1]).at >= flight.landing + ArrivalBuffer
      BY <2>5, <3>2 DEF OnArrival, StartsAt
    <3>4. Head(days[1]).at \in Int
      BY <3>2, ItemTypes
    <3>5. flight.landing + ArrivalBuffer \in Int
      <4>1. flight.landing \in ClockTimes
        BY <2>5, FlightTypes DEF CanArrive
      <4>2. \A t \in ClockTimes : t + ArrivalBuffer \in Int
        BY DEF ClockTimes, ArrivalBuffer
      <4> QED BY <4>1, <4>2
    <3>6. \A i \in 1 .. Len(day) : day[i].at \in Int
      <4>1. \A i \in 1 .. Len(day) : day[i] \in Item
        BY <2>4, ElementOfSeq
      <4> QED BY <4>1, ItemTypes
    <3>7. \A i \in 1 .. Len(day) : day[i].at >= Head(days[1]).at
      BY <2>4, <2>5, <3>1 DEF StartsAt
    <3>8. \A i \in 1 .. Len(day) : day[i].at >= flight.landing + ArrivalBuffer
      BY <3>3, <3>4, <3>5, <3>6, <3>7
    <3> QED BY <3>8 DEF StartsAt
  <2> QED BY <2>4, <2>5 DEF day
<1> QED BY <1>1, <1>2

-----------------------------------------------------------------------------
(* The invariant of the versions. *)

VersionOK(version, whole) ==
    /\ whole \in BOOLEAN
    /\ version.flight \in Flights
    /\ Typed(version.days)
    /\ whole => Good(version.days)

\* So far every version's first day has started at an airport.
Arrived(n) == \A u \in 1 .. n : ArrivesAtAirport(versions[u].days)

Inv ==
    /\ \E T : versions \in Seq(T)
    /\ intact \in Seq(BOOLEAN) /\ Len(intact) = Len(versions)
    /\ \A v \in 1 .. Len(versions) : VersionOK(versions[v], intact[v])
    /\ \A v \in 1 .. Len(versions) :
          intact[v] /\ Arrived(v) => OnArrival(versions[v].days, versions[v].flight)

\* What every operation ends with: one more version, the others as they were.
LEMMA SaveKeepsInv ==
    ASSUME Inv, NEW days, NEW flight \in Flights, NEW whole \in BOOLEAN, NEW answer,
           Save(days, flight, whole, answer), Typed(days),
           whole /\ Orderly(days) => Good(days),
           whole /\ Orderly(days) /\ Arrived(Len(versions)) /\ ArrivesAtAirport(days) =>
              OnArrival(days, flight)
    PROVE  /\ Inv'
           /\ Len(versions') > 0 /\ versions'[Len(versions')].days = days
           /\ asked' = answer
<1> DEFINE version == [days |-> days, flight |-> flight]
           good == whole /\ Orderly(days)
<1>1. versions' = Append(versions, version) /\ intact' = Append(intact, good) /\ asked' = answer
  BY DEF Save
<1>2. PICK S : versions \in Seq(S)
  BY DEF Inv
<1>3. PICK T : versions \in Seq(T) /\ version \in T
  <2>1. versions \in Seq(S \cup {version})
    BY <1>2, SeqMonotonic
  <2> QED BY <2>1
<1>4. /\ Len(versions) \in Nat /\ Len(intact) = Len(versions)
      /\ intact \in Seq(BOOLEAN) /\ good \in BOOLEAN
  BY <1>3 DEF Inv
<1>5. VersionOK(version, good)
  BY <1>4 DEF VersionOK
<1>6. good /\ Arrived(Len(versions)) /\ ArrivesAtAirport(days) => OnArrival(days, flight)
  OBVIOUS
<1> HIDE DEF good
<1>7. /\ versions' \in Seq(T) /\ Len(versions') = Len(versions) + 1
      /\ versions'[Len(versions) + 1] = version
      /\ \A v \in 1 .. Len(versions) : versions'[v] = versions[v]
  <2> HIDE DEF version
  <2> QED BY <1>1, <1>3, AppendProperties
<1>8. /\ intact' \in Seq(BOOLEAN) /\ Len(intact') = Len(versions) + 1
      /\ intact'[Len(versions) + 1] = good
      /\ \A v \in 1 .. Len(versions) : intact'[v] = intact[v]
  BY <1>1, <1>4, AppendProperties
<1>9. version.days = days /\ version.flight = flight
  OBVIOUS
<1> HIDE DEF version
<1>10. ASSUME NEW v \in 1 .. Len(versions) + 1
       PROVE  /\ VersionOK(versions'[v], intact'[v])
              /\ intact'[v] /\ (\A u \in 1 .. v : ArrivesAtAirport(versions'[u].days)) =>
                    OnArrival(versions'[v].days, versions'[v].flight)
  <2>1. CASE v = Len(versions) + 1
    <3>1. VersionOK(versions'[v], intact'[v])
      BY <1>5, <1>7, <1>8, <2>1
    <3>2. ASSUME \A u \in 1 .. v : ArrivesAtAirport(versions'[u].days)
          PROVE  Arrived(Len(versions)) /\ ArrivesAtAirport(days)
      <4>1. \A u \in 1 .. Len(versions) : u \in 1 .. v /\ versions'[u] = versions[u]
        BY <1>4, <1>7, <2>1
      <4>2. v \in 1 .. v /\ versions'[v] = version
        BY <1>4, <1>7, <2>1
      <4> QED BY <1>9, <3>2, <4>1, <4>2 DEF Arrived
    <3> QED BY <1>6, <1>7, <1>8, <1>9, <2>1, <3>1, <3>2
  <2>2. CASE v # Len(versions) + 1
    <3>1. v \in 1 .. Len(versions) /\ \A u \in 1 .. v : u \in 1 .. Len(versions)
      BY <1>4, <2>2
    <3>2. (\A u \in 1 .. v : ArrivesAtAirport(versions'[u].days)) => Arrived(v)
      BY <1>7, <3>1 DEF Arrived
    <3> QED BY <1>7, <1>8, <3>1, <3>2 DEF Inv
  <2> QED BY <2>1, <2>2
<1>11. Inv'
  <2>1. \E R : versions' \in Seq(R)
    BY <1>7
  <2>2. Len(intact') = Len(versions') /\ intact' \in Seq(BOOLEAN)
    BY <1>7, <1>8
  <2>3. \A v \in 1 .. Len(versions') : VersionOK(versions'[v], intact'[v])
    BY <1>7, <1>10
  <2>4. \A v \in 1 .. Len(versions') :
           intact'[v] /\ (\A u \in 1 .. v : ArrivesAtAirport(versions'[u].days)) =>
              OnArrival(versions'[v].days, versions'[v].flight)
    BY <1>7, <1>10
  <2>5. (\A v \in 1 .. Len(versions) : VersionOK(versions[v], intact[v]))'
    BY <2>3 DEF VersionOK, Typed, Good, Orderly, AllNames, Names, Rows, IsAirport,
                DayInOrder, Linked, Spread
  <2>6. (\A v \in 1 .. Len(versions) :
            intact[v] /\ Arrived(v) => OnArrival(versions[v].days, versions[v].flight))'
    BY <2>4 DEF Arrived, ArrivesAtAirport, IsAirport, OnArrival, CanArrive, StartsAt
  <2> QED BY <2>1, <2>2, <2>5, <2>6 DEF Inv
<1> QED BY <1>1, <1>4, <1>7, <1>9, <1>11

\* A new plan, if it is orderly, is in order.
LEMMA SavePipelineResultKeepsInv == Inv /\ SavePipelineResult => Inv'
<1> SUFFICES ASSUME Inv, SavePipelineResult PROVE Inv'
  OBVIOUS
<1>1. PICK flight \in Flights, found \in SUBSET {1, Len(Nights)} :
         \E route \in [Cities -> UNION {RoutesThrough(TopSights(c)) : c \in Cities}] :
            /\ \A c \in Cities : route[c] \in RoutesThrough(TopSights(c))
            /\ Save(BuildDayPlan(route, found, flight), flight, TRUE, <<>>)
  BY DEF SavePipelineResult
<1>2. PICK route :
         /\ \A c \in Cities : route[c] \in RoutesThrough(TopSights(c))
         /\ Save(BuildDayPlan(route, found, flight), flight, TRUE, <<>>)
  BY <1>1
<1> DEFINE days == BuildDayPlan(route, found, flight)
<1>3. DOMAIN days = Days /\ days = [d \in DOMAIN days |-> days[d]]
  BY DEF BuildDayPlan
<1>4. Typed(days)
  BY <1>2, <1>3, BuiltDayTypes DEF Typed
<1>5. ASSUME Orderly(days) PROVE Good(days) /\ OnArrival(days, flight)
  <2>1. \A d \in Days : DayInOrder(days[d]) /\ (d = 1 => OnArrival(days, flight))
    BY <1>2, <1>4, <1>5, BuiltDay
  <2>2. 1 \in Days
    BY TripDays
  <2> QED BY <1>3, <1>5, <2>1, <2>2 DEF Good
<1>6. Save(days, flight, TRUE, <<>>)
  BY <1>2
<1> HIDE DEF days
<1> QED BY <1>4, <1>5, <1>6, SaveKeepsInv

\* The latest version is one of the versions.
LEMMA LatestOK ==
    ASSUME Inv, Len(versions) >= 1
    PROVE  /\ Len(versions) \in Nat /\ Len(intact) = Len(versions)
           /\ VersionOK(Latest, intact[Len(intact)])
           /\ Typed(Latest.days) /\ Latest.flight \in Flights
           /\ intact[Len(intact)] \in BOOLEAN
           /\ intact[Len(intact)] => Good(Latest.days)
           /\ intact[Len(intact)] /\ Arrived(Len(versions)) =>
                 ArrivesAtAirport(Latest.days) /\ OnArrival(Latest.days, Latest.flight)
<1>1. Len(versions) \in Nat /\ Len(intact) = Len(versions)
  BY DEF Inv
<1>2. Len(versions) \in 1 .. Len(versions)
  BY <1>1
<1>3. /\ VersionOK(versions[Len(versions)], intact[Len(versions)])
      /\ intact[Len(versions)] /\ Arrived(Len(versions)) =>
            /\ ArrivesAtAirport(versions[Len(versions)].days)
            /\ OnArrival(versions[Len(versions)].days, versions[Len(versions)].flight)
  BY <1>2 DEF Inv, Arrived
<1> QED BY <1>1, <1>3 DEF VersionOK, Latest

\* An edit saves days that are in order, and copies the ones it keeps.
LEMMA EditIs ==
    ASSUME Inv, CreateEditedVersion
    PROVE  /\ Inv'
           /\ intact[Len(intact)] =>
                 \A d \in DOMAIN asked' :
                    asked'[d] = Names(Latest.days[d]) => Latest'.days[d] = Latest.days[d]
<1>1. PICK answer \in Answers(Latest.days) :
         Save([d \in DOMAIN answer |-> EditedDay(Latest.days, d, answer[d])],
              Latest.flight, intact[Len(intact)], answer)
  BY DEF CreateEditedVersion
<1> DEFINE old == Latest.days
           days == [d \in DOMAIN answer |-> EditedDay(old, d, answer[d])]
<1>2. /\ Typed(old) /\ Latest.flight \in Flights /\ intact[Len(intact)] \in BOOLEAN
      /\ intact[Len(intact)] => Good(old)
      /\ intact[Len(intact)] /\ Arrived(Len(versions)) =>
            ArrivesAtAirport(old) /\ OnArrival(old, Latest.flight)
  <2>1. Len(versions) >= 1
    BY DEF CreateEditedVersion
  <2> QED BY <2>1, LatestOK
<1>3. Save(days, Latest.flight, intact[Len(intact)], answer)
  BY <1>1
<1>4. /\ DOMAIN answer \subseteq DOMAIN old
      /\ \A d \in DOMAIN answer : \E T : answer[d] \in Seq(T)
  <2> HIDE DEF old
  <2> QED BY <1>1, <1>2, AnswerDays DEF old
<1> HIDE DEF old
<1>5. DOMAIN days = DOMAIN answer /\ days = [d \in DOMAIN days |-> days[d]]
      /\ \A d \in DOMAIN answer : days[d] = EditedDay(old, d, answer[d])
  OBVIOUS
<1> HIDE DEF days
<1>6. ASSUME NEW d \in DOMAIN answer
      PROVE  /\ days[d] \in Seq(Item)
             /\ Good(old) =>
                   /\ DayInOrder(days[d])
                   /\ d = 1 /\ ArrivesAtAirport(old) /\ OnArrival(old, Latest.flight) =>
                         OnArrival(days, Latest.flight)
  <2>1. PICK T : answer[d] \in Seq(T)
    BY <1>4
  <2>2. d \in DOMAIN old
    BY <1>4
  <2>3. days[d] \in Seq(Item)
    BY <1>2, <1>5, <2>1, <2>2, EditedDayTypes
  <2>4. Good(old) =>
            /\ DayInOrder(days[d])
            /\ d = 1 /\ ArrivesAtAirport(old) /\ OnArrival(old, Latest.flight)
                     /\ CanArrive(Latest.flight.landing) =>
                  StartsAt(days[d], Latest.flight.landing + ArrivalBuffer)
    BY <1>2, <1>5, <2>1, <2>2, EditedDayInOrder
  <2>5. Good(old) /\ d = 1 /\ ArrivesAtAirport(old) /\ OnArrival(old, Latest.flight) =>
            OnArrival(days, Latest.flight)
    BY <2>4 DEF OnArrival
  <2> QED BY <2>3, <2>4, <2>5
<1>7. Typed(days)
  BY <1>2, <1>4, <1>5, <1>6 DEF Typed
<1>8. ASSUME intact[Len(intact)], Orderly(days)
      PROVE  /\ Good(days)
             /\ Arrived(Len(versions)) => OnArrival(days, Latest.flight)
  <2>1. 1 \in DOMAIN answer
    BY <1>5, <1>8, TripDays DEF Orderly
  <2>2. Good(days)
    BY <1>2, <1>5, <1>6, <1>8 DEF Good
  <2> QED BY <1>2, <1>6, <1>8, <2>1, <2>2
<1>9. Inv' /\ versions'[Len(versions')].days = days /\ asked' = answer
  BY <1>2, <1>3, <1>7, <1>8, SaveKeepsInv
<1>10. ASSUME intact[Len(intact)], NEW d \in DOMAIN answer, answer[d] = Names(old[d])
       PROVE  days[d] = old[d]
  <2>1. /\ d \in DOMAIN old
        /\ Cardinality(AllNames(old)) = Cardinality(Rows(old))
    BY <1>2, <1>4, <1>10 DEF Good, Orderly
  <2>2. /\ Names(old[d]) \in Seq(Places) /\ Len(Names(old[d])) = Len(old[d])
        /\ \A i \in 1 .. Len(old[d]) : Names(old[d])[i] \in AllNames(old)
    <3>1. /\ Names(old[d]) \in Seq(Places) /\ Len(Names(old[d])) = Len(old[d])
          /\ \A i \in 1 .. Len(old[d]) : Names(old[d])[i] = old[d][i].name
      BY <1>2, <2>1, NamesAre
    <3>2. \A i \in 1 .. Len(old[d]) :
             <<d, i>> \in Rows(old) /\ NameOf(old, <<d, i>>) = old[d][i].name
      BY <1>2, <2>1, RowsAre
    <3> QED BY <1>2, <3>1, <3>2, NamesAre
  <2>3. Known(old, answer[d]) = Names(old[d])
    <3> DEFINE names == Names(old[d])
    <3>1. names \in Seq(Places) /\ \A i \in 1 .. Len(names) : names[i] \in AllNames(old) \cup Pool
      BY <2>2
    <3> HIDE DEF names
    <3>2. Only(names, AllNames(old) \cup Pool) = names
      BY <3>1, OnlyTheSet
    <3> QED BY <1>10, <3>2 DEF Known, names
  <2>4. answer[d] \in Seq(Places)
    BY <1>10, <2>2
  <2>5. EditedDay(old, d, answer[d]) = old[d]
    BY <1>2, <2>1, <2>3, <2>4, KeptDay
  <2> QED BY <1>5, <2>5
<1>11. Latest' = versions'[Len(versions')]
  BY DEF Latest
<1> QED BY <1>9, <1>10, <1>11 DEF old

\* Another flight keeps a plan in order.
LEMMA SaveBudgetEditedVersionKeepsInv == Inv /\ SaveBudgetEditedVersion => Inv'
<1> SUFFICES ASSUME Inv, SaveBudgetEditedVersion PROVE Inv'
  OBVIOUS
<1> DEFINE old == Latest.days
<1>1. PICK flight \in Flights :
         Save([d \in DOMAIN old |-> RetimedDay(old, d, Latest.flight, flight)],
              flight, intact[Len(intact)], <<>>)
  BY DEF SaveBudgetEditedVersion
<1> DEFINE days == [d \in DOMAIN old |-> RetimedDay(old, d, Latest.flight, flight)]
<1>2. /\ Typed(old) /\ Latest.flight \in Flights /\ intact[Len(intact)] \in BOOLEAN
      /\ intact[Len(intact)] => Good(old)
      /\ intact[Len(intact)] /\ Arrived(Len(versions)) =>
            ArrivesAtAirport(old) /\ OnArrival(old, Latest.flight)
  <2>1. Len(versions) >= 1
    BY DEF SaveBudgetEditedVersion
  <2> QED BY <2>1, LatestOK
<1>3. Save(days, flight, intact[Len(intact)], <<>>)
  BY <1>1
<1> HIDE DEF old
<1>4. DOMAIN days = DOMAIN old /\ days = [d \in DOMAIN days |-> days[d]]
      /\ \A d \in DOMAIN old : days[d] = RetimedDay(old, d, Latest.flight, flight)
  OBVIOUS
<1> HIDE DEF days
<1>5. ASSUME NEW d \in DOMAIN old
      PROVE  /\ days[d] \in Seq(Item)
             /\ Good(old) =>
                   /\ DayInOrder(days[d])
                   /\ d = 1 /\ OnArrival(old, Latest.flight) => OnArrival(days, flight)
  <2>1. days[d] \in Seq(Item)
    BY <1>2, <1>4, RetimedDayTypes
  <2>2. Good(old) =>
            /\ DayInOrder(days[d])
            /\ d = 1 /\ OnArrival(old, Latest.flight) /\ CanArrive(flight.landing) =>
                  StartsAt(days[d], flight.landing + ArrivalBuffer)
    BY <1>2, <1>4, RetimedDayInOrder
  <2>3. Good(old) /\ d = 1 /\ OnArrival(old, Latest.flight) => OnArrival(days, flight)
    BY <2>2 DEF OnArrival
  <2> QED BY <2>1, <2>2, <2>3
<1>6. Typed(days)
  BY <1>2, <1>4, <1>5 DEF Typed
<1>7. ASSUME intact[Len(intact)], Orderly(days)
      PROVE  /\ Good(days)
             /\ Arrived(Len(versions)) => OnArrival(days, flight)
  <2>1. 1 \in DOMAIN old
    BY <1>4, <1>7, TripDays DEF Orderly
  <2>2. Good(days)
    BY <1>2, <1>4, <1>5, <1>7 DEF Good
  <2> QED BY <1>2, <1>5, <1>7, <2>1, <2>2
<1> QED BY <1>2, <1>3, <1>6, <1>7, SaveKeepsInv

\* A rollback copies a version, and whether it is in order.
LEMMA CopyPlanVersionKeepsInv == Inv /\ CopyPlanVersion => Inv'
<1> SUFFICES ASSUME Inv, CopyPlanVersion PROVE Inv'
  OBVIOUS
<1>1. PICK v \in 1 .. Len(versions) - 1 :
         Save(versions[v].days, versions[v].flight, intact[v], <<>>)
  BY DEF CopyPlanVersion
<1>2. Len(versions) \in Nat
  BY DEF Inv
<1>3. v \in 1 .. Len(versions)
  BY <1>2
<1>4. /\ VersionOK(versions[v], intact[v])
      /\ intact[v] /\ Arrived(v) => OnArrival(versions[v].days, versions[v].flight)
  BY <1>3 DEF Inv
<1>5. Arrived(Len(versions)) => Arrived(v)
  BY <1>2, <1>3 DEF Arrived
<1> QED BY <1>1, <1>4, <1>5, SaveKeepsInv DEF VersionOK

\* The invariant holds of every plan.
THEOREM Invariance == Spec => []Inv
<1>1. Init => Inv
  <2> SUFFICES ASSUME Init PROVE Inv
    OBVIOUS
  <2>1. versions = <<>> /\ intact = <<>>
    BY DEF Init
  <2>2. versions \in Seq({}) /\ intact \in Seq(BOOLEAN) /\ Len(versions) = 0 /\ Len(intact) = 0
    BY <2>1
  <2>3. \E T : versions \in Seq(T)
    BY <2>2
  <2> QED BY <2>2, <2>3 DEF Inv
<1>2. Inv /\ [Next]_vars => Inv'
  <2> SUFFICES ASSUME Inv, [Next]_vars PROVE Inv'
    OBVIOUS
  <2>1. CASE UNCHANGED vars
    <3>1. versions' = versions /\ intact' = intact
      BY <2>1 DEF vars
    <3> QED BY <3>1 DEF Inv, Arrived
  <2>2. CASE Next
    BY <2>2, SavePipelineResultKeepsInv, EditIs, SaveBudgetEditedVersionKeepsInv,
       CopyPlanVersionKeepsInv DEF Next
  <2> QED BY <2>1, <2>2
<1> QED BY <1>1, <1>2, PTL DEF Spec

-----------------------------------------------------------------------------
(* The properties. *)

\* The invariant has the types in it.
LEMMA InvImpliesTypeOK == Inv => TypeOK
<1> SUFFICES ASSUME Inv PROVE TypeOK
  OBVIOUS
<1>1. /\ Len(versions) \in Nat /\ DOMAIN versions = 1 .. Len(versions)
      /\ DOMAIN intact = 1 .. Len(versions)
  BY DEF Inv
<1>2. ASSUME NEW v \in DOMAIN versions
      PROVE  /\ intact[v] \in BOOLEAN
             /\ versions[v].flight \in Flights
             /\ DOMAIN versions[v].days \subseteq Days
             /\ \A d \in DOMAIN versions[v].days : versions[v].days[d] \in Seq(Item)
  <2>1. VersionOK(versions[v], intact[v])
    BY <1>1 DEF Inv
  <2> QED BY <2>1 DEF VersionOK, Typed
<1> QED BY <1>1, <1>2 DEF TypeOK

\* An intact latest plan is in order.
LEMMA CheckedIsGood ==
    ASSUME Inv, Checked
    PROVE  /\ Typed(Latest.days) /\ Good(Latest.days)
           /\ Arrived(Len(versions)) => OnArrival(Latest.days, Latest.flight)
<1>1. versions # <<>> /\ intact[Len(intact)]
  BY DEF Checked
<1>2. Len(versions) >= 1
  <2>1. PICK T : versions \in Seq(T)
    BY DEF Inv
  <2> QED BY <1>1, <2>1, EmptySeq, LenProperties
<1> QED BY <1>1, <1>2, LatestOK

\* Neighbours are rows of one day, with consecutive indices.
LEMMA NeighboursAre ==
    ASSUME NEW days, Typed(days), NEW n \in Neighbours(days)
    PROVE  \E d \in DOMAIN days : \E i \in 1 .. Len(days[d]) - 1 :
              n[1] = days[d][i] /\ n[2] = days[d][i + 1]
<1>1. PICK x \in Rows(days) : /\ x[2] < Len(days[x[1]])
                              /\ n = <<days[x[1]][x[2]], days[x[1]][x[2] + 1]>>
  BY DEF Neighbours
<1>2. x[1] \in DOMAIN days /\ x[2] \in 1 .. Len(days[x[1]]) /\ Len(days[x[1]]) \in Nat
  BY RowsAre
<1>3. x[2] \in 1 .. Len(days[x[1]]) - 1
  BY <1>1, <1>2
<1> QED BY <1>1, <1>2, <1>3

\* Linked days are those whose travel leads to the next stop.
LEMMA InvImpliesTravelLeads == Inv => TravelLeadsToTheNextStop
<1> SUFFICES ASSUME Inv, Checked
             PROVE  /\ \A n \in Neighbours(Latest.days) :
                          n[1].next # None => n[1].next = Leg[<<n[1].name, n[2].name>>]
                    /\ \A d \in DOMAIN Latest.days :
                          Latest.days[d] # <<>> => Last(Latest.days[d]).next = None
  BY DEF TravelLeadsToTheNextStop
<1> DEFINE days == Latest.days
<1>1. Typed(days) /\ \A d \in DOMAIN days : Linked(days[d])
  BY CheckedIsGood DEF Good, DayInOrder
<1> HIDE DEF days
<1>2. ASSUME NEW n \in Neighbours(days), n[1].next # None
      PROVE  n[1].next = Leg[<<n[1].name, n[2].name>>]
  <2>1. PICK d \in DOMAIN days : \E i \in 1 .. Len(days[d]) - 1 :
           n[1] = days[d][i] /\ n[2] = days[d][i + 1]
    BY <1>1, NeighboursAre
  <2> QED BY <1>1, <1>2, <2>1 DEF Linked
<1>3. ASSUME NEW d \in DOMAIN days, days[d] # <<>>
      PROVE  Last(days[d]).next = None
  <2>1. days[d] \in Seq(Item) /\ Linked(days[d])
    BY <1>1, RowsAre
  <2>2. Len(days[d]) > 0
    BY <1>3, <2>1, EmptySeq, LenProperties
  <2> QED BY <2>1, <2>2 DEF Linked, Last
<1> QED BY <1>2, <1>3 DEF days

\* A first day that starts in town has no row before that.
LEMMA InvImpliesKeptArrivalComesFirst == Inv => KeptArrivalComesFirst
<1> SUFFICES ASSUME Inv, Checked, CanArrive(Latest.flight.landing),
                    \A v \in DOMAIN versions : ArrivesAtAirport(versions[v].days)
             PROVE  \A i \in DOMAIN Latest.days[1] :
                       Latest.days[1][i].at >= Latest.flight.landing + ArrivalBuffer
  BY DEF KeptArrivalComesFirst, InTownFirst, CanArrive
<1>1. Arrived(Len(versions))
  <2>1. PICK T : versions \in Seq(T)
    BY DEF Inv
  <2>2. DOMAIN versions = 1 .. Len(versions)
    BY <2>1, LenProperties
  <2> QED BY <2>2 DEF Arrived
<1>2. /\ Typed(Latest.days) /\ Orderly(Latest.days)
      /\ StartsAt(Latest.days[1], Latest.flight.landing + ArrivalBuffer)
  BY <1>1, CheckedIsGood DEF Good, OnArrival
<1>3. 1 \in DOMAIN Latest.days
  BY <1>2, TripDays DEF Orderly
<1>4. DOMAIN Latest.days[1] = 1 .. Len(Latest.days[1])
  BY <1>2, <1>3, RowsAre
<1> QED BY <1>2, <1>4 DEF StartsAt

\* Spread days are those whose visits do not overlap.
LEMMA InvImpliesNoOverlap == ShortLegs /\ Inv => UniqueVisitsDoNotOverlap
<1> SUFFICES ASSUME ShortLegs, Inv, Checked, NEW n \in Neighbours(Latest.days)
             PROVE  n[1].at + n[1].stay + Travel(n[1]) <= n[2].at
  BY DEF UniqueVisitsDoNotOverlap, Apart
<1>1. Typed(Latest.days) /\ \A d \in DOMAIN Latest.days : Spread(Latest.days[d])
  BY CheckedIsGood DEF Good, DayInOrder
<1>2. PICK d \in DOMAIN Latest.days : \E i \in 1 .. Len(Latest.days[d]) - 1 :
         n[1] = Latest.days[d][i] /\ n[2] = Latest.days[d][i + 1]
  BY <1>1, NeighboursAre
<1> QED BY <1>1, <1>2 DEF Spread

\* Whatever the flight and the edits, every row that is stored has a place that
\* was found and a time of the day (_schedule_day, _item_create_kwargs).
THEOREM TypeCorrectness == Spec => []TypeOK
BY Invariance, InvImpliesTypeOK, PTL

\* The travel time a row shows leads to the row after it, and the last row of a
\* day shows none, whatever is left out, edited or timed again (_schedule_day,
\* create_edited_version): of plans in which no name is on two rows and an airport
\* is only where the trip starts and ends, as long as each version leaves them so.
THEOREM TravelLeads == Spec => []TravelLeadsToTheNextStop
BY Invariance, InvImpliesTravelLeads, PTL

\* Of such plans: as long as the first day of every version starts with the row of
\* an airport, nothing is planned before the traveller is in town, although an edit
\* knows the landing only from the time of that row (_day_edit_window).
THEOREM NothingBefore == Spec => []KeptArrivalComesFirst
BY Invariance, InvImpliesKeptArrivalComesFirst, PTL

\* Of such plans: if no leg takes three hours, nobody has to be at two places at once.
\* (A longer leg, to the airport of departure, takes its time past midnight, where it
\* wraps.)
THEOREM NoOverlap == ShortLegs => (Spec => []UniqueVisitsDoNotOverlap)
<1> SUFFICES ASSUME ShortLegs PROVE Spec => []UniqueVisitsDoNotOverlap
  OBVIOUS
<1>1. Inv => UniqueVisitsDoNotOverlap
  BY InvImpliesNoOverlap
<1> QED BY <1>1, Invariance, PTL

\* A day an edit leaves as it is keeps its rows, times and travel included, in a
\* plan in which no name is on two rows (create_edited_version).
THEOREM DaysAreCopied == Spec => UniqueDaysAreCopied
<1> DEFINE Copied ==
        Checked => \A d \in DOMAIN asked' :
            asked'[d] = Names(Latest.days[d]) => Latest'.days[d] = Latest.days[d]
<1>1. Inv /\ [Next]_vars => [Copied]_vars
  <2> SUFFICES ASSUME Inv, Next PROVE Copied
    OBVIOUS
  <2>1. CASE CreateEditedVersion
    BY <2>1, EditIs DEF Checked
  <2>2. CASE SavePipelineResult \/ SaveBudgetEditedVersion \/ CopyPlanVersion
    <3>1. asked' = <<>>
      BY <2>2 DEF SavePipelineResult, SaveBudgetEditedVersion, CopyPlanVersion, Save
    <3>2. DOMAIN asked' = {}
      BY <3>1
    <3> QED BY <3>2
  <2> QED BY <2>1, <2>2 DEF Next
<1>2. Spec => [][Copied]_vars
  BY <1>1, Invariance, PTL DEF Spec
<1> QED BY <1>2 DEF UniqueDaysAreCopied
=============================================================================
