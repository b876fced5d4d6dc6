-------------------------- MODULE IntentGateProofs --------------------------
(***************************************************************************)
(* Proofs about IntentGate, for any requests, ids, runs and utterances:    *)
(* the cards are honest about what they lack and what was made up, and     *)
(* what runs implements ConfirmedRuns.                                     *)
(***************************************************************************)
EXTENDS IntentGate, WellFoundedInduction, TLAPS

-----------------------------------------------------------------------------
(* What can be said *)

\* A message is put together from the words of utterances, and means its numbers.
IsMessage(msg) == msg \in Seq(Vocabulary) /\ NumbersAreMeant(msg)

\* Every word says a value its slot can have.
LEMMA WordsAreWellFormed ==
    ASSUME NEW w \in Vocabulary
    PROVE  IsWord(w) /\ w.value \in Values(w.slot)
<1>1. IsWord(Aside)
  BY IntentGateAssumption DEF IntentGateAssumption, IsWord, Aside, Plain, Slots
<1>2. w # Aside => IsWord(w)
  BY IntentGateAssumption DEF IntentGateAssumption, Vocabulary
<1> QED BY <1>1, <1>2 DEF Values

\* Text that does not begin with thousands leaves the numbers before it their meaning.
LEMMA MeaningIsKept ==
    ASSUME NEW a, IsMessage(a), NEW b, IsMessage(b), b # <<>>, b[1].unit # "cheon"
    PROVE  /\ IsMessage(a \o b) /\ Len(a \o b) = Len(a) + Len(b)
           /\ Len(a) > 0 => (a \o b)[1] = a[1]
<1> DEFINE c == a \o b
<1>1. /\ a \in Seq(Vocabulary) /\ b \in Seq(Vocabulary) /\ c \in Seq(Vocabulary)
      /\ Len(a) \in Nat /\ Len(b) \in Nat /\ Len(c) = Len(a) + Len(b)
      /\ DOMAIN a = 1 .. Len(a) /\ DOMAIN b = 1 .. Len(b) /\ DOMAIN c = 1 .. Len(c)
  BY DEF IsMessage
<1>2. \A i \in 1 .. Len(a) : c[i] = a[i]
  BY <1>1
<1>3. \A i \in 1 .. Len(b) : c[Len(a) + i] = b[i]
  BY <1>1
<1>4. Len(b) >= 1 /\ c[Len(a) + 1].unit # "cheon"
  <2>1. Len(b) # 0
    BY <1>1
  <2> QED BY <1>1, <1>3, <2>1
<1> HIDE DEF c
<1>5. ASSUME NEW i \in 1 .. Len(c)
      PROVE  \E d \in {a, b} : \E k \in DOMAIN d :
                /\ c[i] = d[k]
                /\ i < Len(c) /\ c[i + 1].unit = "cheon" => k < Len(d) /\ c[i + 1] = d[k + 1]
                /\ k < Len(d) => i < Len(c) /\ c[i + 1] = d[k + 1]
  <2>1. CASE i <= Len(a)
    <3>1. i \in DOMAIN a /\ c[i] = a[i]
      BY <1>1, <1>2, <2>1
    <3>2. i < Len(a) => i < Len(c) /\ c[i + 1] = a[i + 1]
      BY <1>1, <1>2, <2>1
    <3>3. i = Len(a) => c[i + 1].unit # "cheon"
      BY <1>4
    <3> QED BY <1>1, <2>1, <3>1, <3>2, <3>3
  <2>2. CASE i > Len(a)
    <3> DEFINE k == i - Len(a)
    <3>1. k \in 1 .. Len(b) /\ i = Len(a) + k
      BY <1>1, <2>2
    <3>2. k \in DOMAIN b /\ c[i] = b[k]
      BY <1>1, <1>3, <3>1
    <3>3. i < Len(c) <=> k < Len(b)
      BY <1>1, <3>1
    <3>4. k < Len(b) => c[i + 1] = b[k + 1]
      <4>1. k < Len(b) => k + 1 \in 1 .. Len(b) /\ i + 1 = Len(a) + (k + 1)
        BY <1>1, <3>1
      <4> QED BY <1>3, <4>1
    <3> QED BY <3>2, <3>3, <3>4
  <2> QED BY <1>1, <2>1, <2>2
<1>6. NumbersAreMeant(a) /\ NumbersAreMeant(b)
  BY DEF IsMessage
<1>7. NumbersAreMeant(c)
  <2> SUFFICES ASSUME NEW i \in 1 .. Len(c)
               PROVE  /\ c[i].unit \notin {"man", "cheon"} =>
                            c[i].number < MIN_BUDGET_ABSOLUTE \/ SaysBudget(c[i], c[i].number)
                      /\ c[i].unit = "man" =>
                            IF i < Len(c) /\ c[i + 1].unit = "cheon"
                            THEN SaysBudget(c[i + 1], c[i].number * 10000 + c[i + 1].number * 1000)
                            ELSE SaysBudget(c[i], c[i].number * 10000)
    BY <1>1 DEF NumbersAreMeant
  <2>1. PICK d \in {a, b} : \E k \in DOMAIN d :
                /\ c[i] = d[k]
                /\ i < Len(c) /\ c[i + 1].unit = "cheon" => k < Len(d) /\ c[i + 1] = d[k + 1]
                /\ k < Len(d) => i < Len(c) /\ c[i + 1] = d[k + 1]
    BY <1>5
  <2>2. PICK k \in DOMAIN d :
                /\ c[i] = d[k]
                /\ i < Len(c) /\ c[i + 1].unit = "cheon" => k < Len(d) /\ c[i + 1] = d[k + 1]
                /\ k < Len(d) => i < Len(c) /\ c[i + 1] = d[k + 1]
    BY <2>1
  <2>3. NumbersAreMeant(d)
    BY <1>6, <2>1
  <2>4. /\ d[k].unit \notin {"man", "cheon"} =>
              d[k].number < MIN_BUDGET_ABSOLUTE \/ SaysBudget(d[k], d[k].number)
        /\ d[k].unit = "man" =>
              IF k < Len(d) /\ d[k + 1].unit = "cheon"
              THEN SaysBudget(d[k + 1], d[k].number * 10000 + d[k + 1].number * 1000)
              ELSE SaysBudget(d[k], d[k].number * 10000)
    BY <2>2, <2>3 DEF NumbersAreMeant
  <2>5. i < Len(c) /\ c[i + 1].unit = "cheon" <=> k < Len(d) /\ d[k + 1].unit = "cheon"
    BY <2>2
  <2> QED BY <2>2, <2>4, <2>5
<1>8. Len(a) > 0 => c[1] = a[1]
  BY <1>1, <1>2
<1> QED BY <1>1, <1>7, <1>8 DEF IsMessage, c

\* What a user types is a message, after anything said before as an answer, and with the
\* words of the code around it as a correction.
LEMMA MessagesGrow ==
    ASSUME NEW u \in Utterances
    PROVE  /\ IsMessage(u)
           /\ \A msg : IsMessage(msg) =>
                 IsMessage(msg \o u) /\ IsMessage(msg \o (<<Aside>> \o u \o <<Aside>>))
<1>1. /\ u \in Seq(Words(u)) /\ Words(u) \subseteq Vocabulary /\ u # <<>>
      /\ NumbersAreMeant(u) /\ u[1].unit # "cheon"
  BY IntentGateAssumption DEF IntentGateAssumption, Vocabulary
<1>2. IsMessage(u)
  <2>1. u \in Seq(Vocabulary)
    BY <1>1
  <2> QED BY <1>1, <2>1 DEF IsMessage
<1> DEFINE aside == <<Aside>>
<1>3. aside # <<>> /\ aside[1] = Aside /\ Len(aside) = 1 /\ DOMAIN aside = {1}
  OBVIOUS
<1>4. Aside.unit = "other" /\ Aside.number = 0 /\ Aside \in Vocabulary
  BY DEF Aside, Plain, Vocabulary
<1>5. IsMessage(aside)
  <2>1. aside \in Seq(Vocabulary)
    BY <1>4
  <2>2. NumbersAreMeant(aside)
    <3>1. aside[1].unit = "other" /\ aside[1].number = 0
      BY <1>3, <1>4
    <3> HIDE DEF aside
    <3> QED BY <1>3, <3>1 DEF NumbersAreMeant, MIN_BUDGET_ABSOLUTE
  <2> QED BY <2>1, <2>2 DEF IsMessage
<1> DEFINE mid == aside \o u
           whole == mid \o aside
<1>6. IsMessage(mid) /\ Len(mid) = 1 + Len(u) /\ mid[1] = Aside
  <2> HIDE DEF aside
  <2>1. /\ IsMessage(mid) /\ Len(mid) = Len(aside) + Len(u)
        /\ Len(aside) > 0 => mid[1] = aside[1]
    BY <1>1, <1>2, <1>5, MeaningIsKept
  <2> QED BY <1>3, <2>1
<1>7. Len(u) \in Nat
  BY <1>1
<1>8. IsMessage(whole) /\ whole # <<>> /\ whole[1] = Aside
  <2> HIDE DEF mid, aside
  <2>0. aside[1].unit # "cheon"
    BY <1>3, <1>4
  <2>1. /\ IsMessage(whole) /\ Len(whole) = Len(mid) + Len(aside)
        /\ Len(mid) > 0 => whole[1] = mid[1]
    BY <1>3, <1>5, <1>6, <2>0, MeaningIsKept
  <2> HIDE DEF whole
  <2>2. Len(whole) # 0
    BY <1>3, <1>6, <1>7, <2>1
  <2> QED BY <1>6, <1>7, <2>1, <2>2
<1> HIDE DEF whole
<1>9. ASSUME NEW msg, IsMessage(msg)
      PROVE  IsMessage(msg \o u) /\ IsMessage(msg \o whole)
  BY <1>1, <1>2, <1>4, <1>8, <1>9, MeaningIsKept
<1> QED BY <1>2, <1>9 DEF whole

-----------------------------------------------------------------------------
(* Positions and runs of digits *)

\* The first of some positions is one of them, and none is before it.
LEMMA MinIsFirst ==
    ASSUME NEW at \in SUBSET Nat, at # {}
    PROVE  Min(at) \in at
<1>1. PICK i \in at : \A j \in at : <<j, i>> \notin OpToRel(<, Nat)
  BY WFMin, NatLessThanWellFounded
<1>2. \A j \in at : i <= j
  <2> TAKE j \in at
  <2>1. i \in Nat /\ j \in Nat
    BY <1>1
  <2>2. ~ (j < i)
    BY <1>1, <2>1 DEF OpToRel
  <2> QED BY <2>1, <2>2
<1> QED BY <1>2 DEF Min

\* So is the last one.
LEMMA MaxIsLast ==
    ASSUME NEW n \in Nat, NEW at \in SUBSET (1 .. n), at # {}
    PROVE  Max(at) \in at
<1> DEFINE fromTheEnd == {n - i : i \in at}
<1>1. fromTheEnd \in SUBSET Nat /\ fromTheEnd # {}
  <2>1. \A i \in at : n - i \in Nat
    OBVIOUS
  <2> QED BY <2>1
<1>2. PICK k \in fromTheEnd : \A m \in fromTheEnd : <<m, k>> \notin OpToRel(<, Nat)
  <2> HIDE DEF fromTheEnd
  <2> QED BY <1>1, WFMin, NatLessThanWellFounded
<1>3. PICK i \in at : k = n - i
  BY <1>2
<1>4. \A j \in at : i >= j
  <2> TAKE j \in at
  <2>1. n - j \in fromTheEnd /\ n - j \in Nat /\ k \in Nat
    BY <1>1, <1>2
  <2>2. ~ (n - j < k)
    BY <1>2, <2>1 DEF OpToRel
  <2> QED BY <1>3, <2>2
<1> QED BY <1>4 DEF Max

\* What the positions of a message are, and what stands there.
LEMMA PositionsOf ==
    ASSUME NEW msg, IsMessage(msg)
    PROVE  /\ Len(msg) \in Nat /\ DOMAIN msg = 1 .. Len(msg)
           /\ \A i \in DOMAIN msg : msg[i] \in Vocabulary /\ IsWord(msg[i])
           /\ \A at \in SUBSET DOMAIN msg : at # {} => Min(at) \in at /\ Max(at) \in at
<1>1. Len(msg) \in Nat /\ DOMAIN msg = 1 .. Len(msg) /\ \A i \in DOMAIN msg : msg[i] \in Vocabulary
  BY DEF IsMessage
<1>2. \A at \in SUBSET DOMAIN msg : at \in SUBSET Nat
  BY <1>1
<1> QED BY <1>1, <1>2, WordsAreWellFormed, MinIsFirst, MaxIsLast

AreDigits(run, msg, n) == run = [i \in 1 .. n |-> Digits(run[i - 1], msg, i)]

\* The first word continues no number.
LEMMA FirstDigits ==
    ASSUME NEW msg, NEW x, NEW y
    PROVE  Digits(x, msg, 1) = Digits(y, msg, 1)
BY DEF Digits

\* Behind anything but spaces and commas a number of its own begins.
LEMMA OwnDigits ==
    ASSUME NEW msg, NEW before, NEW i, ~ (i > 1 /\ msg[i - 1].unit = "space")
    PROVE  /\ Digits(before, msg, i).number = msg[i].number
           /\ Digits(before, msg, i).scale = msg[i].scale
           /\ Digits(before, msg, i).first = i
<1>1. \E e : Digits(before, msg, i) = [number |-> msg[i].number, scale |-> msg[i].scale,
                                      first |-> i, eaten |-> e]
  BY DEF Digits
<1> QED BY <1>1

\* What 0 has, and each number up to n has if the one before has it, all have.
LEMMA UpToInduction ==
    ASSUME NEW n \in Nat, NEW good \in SUBSET Nat, 0 \in good,
           \A m \in 1 .. n : m - 1 \in good => m \in good
    PROVE  0 .. n \subseteq good
<1> SUFFICES ASSUME ~ (0 .. n \subseteq good) PROVE FALSE
  OBVIOUS
<1> DEFINE bad == (0 .. n) \ good
<1>1. PICK m \in bad : \A k \in bad : <<k, m>> \notin OpToRel(<, Nat)
  <2>1. bad \in SUBSET Nat /\ bad # {}
    OBVIOUS
  <2> HIDE DEF bad
  <2> QED BY <2>1, WFMin, NatLessThanWellFounded
<1>2. m \in 1 .. n
  OBVIOUS
<1>3. m - 1 \notin bad
  <2> SUFFICES ASSUME m - 1 \in bad PROVE FALSE
    OBVIOUS
  <2>1. m - 1 \in Nat /\ m \in Nat /\ m - 1 < m
    BY <1>2
  <2> QED BY <1>1, <2>1 DEF OpToRel
<1> QED BY <1>2, <1>3

\* Compact is the function its recursion describes.
LEMMA CompactDef ==
    ASSUME NEW msg, Len(msg) \in Nat
    PROVE  AreDigits(Compact(msg), msg, Len(msg))
<1> DEFINE good == {k \in Nat : \E run : AreDigits(run, msg, k)}
<1>1. 0 \in good
  <2>1. AreDigits([i \in 1 .. 0 |-> 0], msg, 0)
    BY DEF AreDigits
  <2> QED BY <2>1
<1>2. ASSUME NEW m \in 1 .. Len(msg), m - 1 \in good
      PROVE  m \in good
  <2>1. PICK run : AreDigits(run, msg, m - 1)
    BY <1>2
  <2> DEFINE more == [i \in 1 .. m |-> IF i = m THEN Digits(run[m - 1], msg, m) ELSE run[i]]
  <2>2. \A i \in 1 .. m : more[i] = Digits(more[i - 1], msg, i)
    <3> TAKE i \in 1 .. m
    <3>1. more[i] = Digits(run[i - 1], msg, i)
      BY <2>1 DEF AreDigits
    <3>2. CASE i = 1
      BY <3>1, <3>2, FirstDigits
    <3>3. CASE i # 1
      <4>1. more[i - 1] = run[i - 1]
        BY <3>3
      <4> QED BY <3>1, <4>1
    <3> QED BY <3>2, <3>3
  <2>3. AreDigits(more, msg, m)
    <3>1. more = [i \in 1 .. m |-> more[i]]
      OBVIOUS
    <3> HIDE DEF more
    <3> QED BY <2>2, <3>1 DEF AreDigits
  <2> QED BY <2>3
<1>3. 0 .. Len(msg) \subseteq good
  <2>1. good \in SUBSET Nat
    OBVIOUS
  <2> HIDE DEF good
  <2> QED BY <1>1, <1>2, <2>1, UpToInduction
<1>4. PICK run : AreDigits(run, msg, Len(msg))
  BY <1>3
<1> QED BY <1>4 DEF Compact, AreDigits

\* Numbers put together are numbers.
LEMMA ProductsAreNumbers ==
    ASSUME NEW x \in Nat, NEW y \in Nat \ {0}, NEW s \in Nat \ {0}, NEW n \in Nat
    PROVE  x * s + n \in Nat /\ y * s \in Nat \ {0}
OBVIOUS

\* The digits of a message make numbers.
LEMMA RunsAreNumbers ==
    ASSUME NEW msg, IsMessage(msg), NEW i \in DOMAIN msg
    PROVE  Compact(msg)[i].number \in Nat /\ Compact(msg)[i].scale \in Nat \ {0}
<1> DEFINE run == Compact(msg)
           IsRun(r) == /\ r = [number |-> r.number, scale |-> r.scale,
                               first |-> r.first, eaten |-> r.eaten]
                       /\ r.number \in Nat /\ r.scale \in Nat \ {0}
           good == {k \in Nat : k \in 1 .. Len(msg) => IsRun(run[k])}
<1>1. Len(msg) \in Nat /\ DOMAIN msg = 1 .. Len(msg) /\ \A k \in DOMAIN msg : IsWord(msg[k])
  BY PositionsOf
<1>2. \A k \in 1 .. Len(msg) : run[k] = Digits(run[k - 1], msg, k)
  <2>1. AreDigits(run, msg, Len(msg))
    BY <1>1, CompactDef
  <2> HIDE DEF run
  <2> QED BY <2>1 DEF AreDigits
<1> HIDE DEF run
<1>3. ASSUME NEW m \in 1 .. Len(msg), m - 1 \in good
      PROVE  m \in good
  <2>1. msg[m].number \in Nat /\ msg[m].scale \in Nat \ {0}
    BY <1>1 DEF IsWord
  <2>2. CASE m > 1 /\ msg[m - 1].unit = "space"
    <3>1. IsRun(run[m - 1])
      BY <1>3, <2>2
    <3>2. run[m] = [run[m - 1] EXCEPT !.number = @ * msg[m].scale + msg[m].number,
                                      !.scale = @ * msg[m].scale]
      BY <1>2, <2>2 DEF Digits
    <3>3. run[m] = [number |-> run[m - 1].number * msg[m].scale + msg[m].number,
                    scale |-> run[m - 1].scale * msg[m].scale,
                    first |-> run[m - 1].first, eaten |-> run[m - 1].eaten]
      BY <3>1, <3>2
    <3>4. run[m - 1].number \in Nat /\ run[m - 1].scale \in Nat \ {0}
      BY <3>1
    <3>5. run[m].number \in Nat /\ run[m].scale \in Nat \ {0}
      <4>1. /\ run[m].number = run[m - 1].number * msg[m].scale + msg[m].number
            /\ run[m].scale = run[m - 1].scale * msg[m].scale
        BY <3>3
      <4>2. /\ run[m - 1].number * msg[m].scale + msg[m].number \in Nat
            /\ run[m - 1].scale * msg[m].scale \in Nat \ {0}
        BY <2>1, <3>4, ProductsAreNumbers, Zenon
      <4> QED BY <4>1, <4>2
    <3>6. IsRun(run[m])
      BY <3>3, <3>5
    <3> QED BY <3>6
  <2>3. CASE ~ (m > 1 /\ msg[m - 1].unit = "space")
    <3>1. \E e : run[m] = [number |-> msg[m].number, scale |-> msg[m].scale,
                           first |-> m, eaten |-> e]
      BY <1>2, <2>3 DEF Digits
    <3> QED BY <2>1, <3>1
  <2> QED BY <2>2, <2>3
<1>4. i \in good
  <2>1. good \in SUBSET Nat /\ 0 \in good /\ i \in 0 .. Len(msg)
    BY <1>1
  <2> HIDE DEF good
  <2> QED BY <1>1, <1>3, <2>1, UpToInduction
<1> QED BY <1>1, <1>4 DEF run

\* As long as no two numbers touch, what has digits has those of one word.
LEMMA RunsOfOneWord ==
    ASSUME NEW msg, IsMessage(msg), ~NumbersTouch(msg), NEW i \in DOMAIN msg
    PROVE  LET run == Compact(msg)
           IN  /\ msg[i].scale > 1 => run[i].number = msg[i].number /\ run[i].first = i
               /\ msg[i].scale = 1 /\ run[i].scale > 1 =>
                     i - 1 \in DOMAIN msg /\ run[i].number = msg[i - 1].number
               /\ msg[i].scale > 1 => run[i].scale = msg[i].scale
<1> DEFINE run == Compact(msg)
<1>1. Len(msg) \in Nat /\ DOMAIN msg = 1 .. Len(msg) /\ \A k \in DOMAIN msg : IsWord(msg[k])
  BY PositionsOf
<1>2. \A k \in 1 .. Len(msg) : run[k] = Digits(run[k - 1], msg, k)
  <2>1. AreDigits(run, msg, Len(msg))
    BY <1>1, CompactDef
  <2> HIDE DEF run
  <2> QED BY <2>1 DEF AreDigits
<1>3. \A k \in 1 .. Len(msg) : run[k].number \in Nat /\ run[k].scale \in Nat \ {0}
  BY <1>1, RunsAreNumbers
<1> HIDE DEF run
<1>4. ASSUME NEW k \in 1 .. Len(msg), msg[k].scale > 1
      PROVE  /\ run[k].number = msg[k].number /\ run[k].first = k
             /\ run[k].scale = msg[k].scale
  <2>1. ~ (k > 1 /\ msg[k - 1].unit = "space")
    <3> SUFFICES ASSUME k > 1, msg[k - 1].unit = "space" PROVE FALSE
      OBVIOUS
    <3>1. k - 1 \in 1 .. Len(msg) - 1 /\ (k - 1) + 1 = k
      BY <1>1
    <3> QED BY <1>4, <3>1 DEF NumbersTouch
  <2> QED BY <1>2, <2>1, OwnDigits
<1>5. ASSUME msg[i].scale = 1, run[i].scale > 1
      PROVE  i - 1 \in DOMAIN msg /\ run[i].number = msg[i - 1].number
  <2>1. msg[i].number = 0
    BY <1>1, <1>5 DEF IsWord
  <2>2. CASE i > 1 /\ msg[i - 1].unit = "space"
    <3>1. i - 1 \in 1 .. Len(msg)
      BY <1>1, <2>2
    <3>2. msg[i - 1].scale > 1
      BY <1>1, <2>2, <3>1 DEF IsWord
    <3>3. run[i - 1].number = msg[i - 1].number /\ run[i - 1].scale = msg[i - 1].scale
      BY <1>4, <3>1, <3>2
    <3>4. run[i] = [run[i - 1] EXCEPT !.number = @ * msg[i].scale + msg[i].number,
                                      !.scale = @ * msg[i].scale]
      BY <1>1, <1>2, <2>2 DEF Digits
    <3>5. run[i - 1] = Digits(run[i - 2], msg, i - 1)
      <4>1. (i - 1) - 1 = i - 2
        BY <1>1
      <4> QED BY <1>2, <3>1, <4>1
    <3>6. ~ (i - 1 > 1 /\ msg[i - 2].unit = "space")
      <4> SUFFICES ASSUME i - 1 > 1, msg[i - 2].unit = "space" PROVE FALSE
        OBVIOUS
      <4>1. i - 2 \in 1 .. Len(msg) - 1 /\ (i - 2) + 1 = i - 1
        BY <1>1
      <4> QED BY <3>2, <4>1 DEF NumbersTouch
    <3>7. \E e : run[i - 1] = [number |-> msg[i - 1].number, scale |-> msg[i - 1].scale,
                               first |-> i - 1, eaten |-> e]
      <4>1. (i - 1) - 1 = i - 2
        BY <1>1
      <4> QED BY <3>5, <3>6, <4>1 DEF Digits
    <3>8. run[i].number = run[i - 1].number * msg[i].scale + msg[i].number
      BY <3>4, <3>7
    <3> QED BY <1>1, <1>5, <2>1, <3>1, <3>3, <3>8, <1>3
  <2>3. CASE ~ (i > 1 /\ msg[i - 1].unit = "space")
    <3>1. run[i].scale = msg[i].scale
      BY <1>1, <1>2, <2>3, OwnDigits
    <3> QED BY <1>5, <3>1
  <2> QED BY <2>2, <2>3
<1> QED BY <1>1, <1>4, <1>5 DEF run

-----------------------------------------------------------------------------
(* From a message to a card *)

FieldNames == {"origin", "destinations", "budget", "pax", "dates", "themes"}

\* A budget is one that was said, too low to be real, or made of numbers that touch.
BudgetIsMeant(msg, budget) ==
    \/ NumbersTouch(msg)
    \/ budget \in BudgetsSaid(msg)
    \/ budget < MIN_BUDGET_ABSOLUTE

\* What holds of the fields at every stage of the repairs: AreFields, the slots
\* listed as missing are those without a value, and the budget is meant.
Honest(msg, a) ==
    /\ DOMAIN a = FieldNames \cup {"missing"}
    /\ AreFields(a)
    /\ "budget" \in a.missing <=> a.budget = None
    /\ "destinations" \in a.missing <=> a.destinations = <<>>
    /\ a.budget = None \/ BudgetIsMeant(msg, a.budget)
    /\ a.budget # 0

\* What Claude extracts: a budget that was said or none, and what is missing listed.
LEMMA ClaudeIsHonest ==
    ASSUME NEW msg, IsMessage(msg), NEW missed
    PROVE  Honest(msg, ClaudeAnswer(msg, missed))
<1> DEFINE a == ClaudeAnswer(msg, missed)
           Value(slot) == msg[Max(Said(msg, slot))].value
           heard(slot) == ~ (Said(msg, slot) = {} \/ slot \in missed)
<1>1. ASSUME NEW slot, heard(slot)
      PROVE  \E w \in Vocabulary : /\ w.slot = slot /\ w.value = Value(slot) /\ IsWord(w)
                                   /\ w.value \in Values(slot)
                                   /\ slot = "budget" => w.value \in BudgetsSaid(msg)
  <2> DEFINE i == Max(Said(msg, slot))
  <2>1. i \in Said(msg, slot)
    <3>1. Said(msg, slot) \in SUBSET DOMAIN msg
      BY DEF Said
    <3> QED BY <1>1, <3>1, PositionsOf
  <2> HIDE DEF i
  <2>2. msg[i] \in Vocabulary /\ msg[i].slot = slot
    BY <2>1, PositionsOf DEF Said
  <2>3. IsWord(msg[i]) /\ msg[i].value \in Values(slot)
    BY <2>2, WordsAreWellFormed
  <2>4. slot = "budget" => msg[i].value \in BudgetsSaid(msg)
    BY <2>1 DEF BudgetsSaid
  <2> QED BY <2>2, <2>3, <2>4 DEF i
<1>2. /\ a.origin = IF ~heard("origin") THEN None ELSE Value("origin")
      /\ a.budget = IF ~heard("budget") THEN None ELSE Value("budget")
      /\ a.pax = IF ~heard("pax") THEN [adult |-> 1, child |-> 0] ELSE Value("pax")
      /\ a.dates = IF ~heard("dates") THEN None ELSE Value("dates")
      /\ a.themes = IF ~heard("themes") THEN {} ELSE Value("themes")
      /\ a.missing = {slot \in {"destinations", "budget", "dates"} : ~heard(slot)}
      /\ DOMAIN a = FieldNames \cup {"missing"}
  BY DEF ClaudeAnswer, FieldNames
<1> DEFINE cities == IF ~heard("destinations") THEN <<>> ELSE Value("destinations")
           nights == IF ~heard("nights") THEN None ELSE Value("nights")
<1>3. a.destinations = [i \in DOMAIN cities |->
                          [city |-> cities[i], nights |-> IF i = 1 THEN nights ELSE None]]
  BY DEF ClaudeAnswer
<1>4. nights \in Nat \cup {None}
  <2>1. heard("nights") => Value("nights") \in Nat
    BY <1>1 DEF IsWord
  <2> QED BY <2>1
<1>5. heard("destinations") => 1 \in DOMAIN Value("destinations")
  BY <1>1 DEF IsWord
<1>6. /\ heard("budget") => Value("budget") \in Nat \ {0} /\ Value("budget") \in BudgetsSaid(msg)
      /\ heard("pax") => Value("pax") \in [adult : Nat, child : Nat]
      /\ heard("origin") => Value("origin") \in Values("origin")
      /\ heard("dates") => Value("dates") \in Values("dates")
      /\ heard("themes") => Value("themes") \in Values("themes")
  BY <1>1 DEF IsWord
<1>7. None \notin Nat
  BY IntentGateAssumption DEF IntentGateAssumption
<1>8. \A i \in DOMAIN a.destinations : a.destinations[i].nights \in Nat \cup {None}
  <2> HIDE DEF cities, nights, a
  <2> QED BY <1>3, <1>4
<1>9. a.destinations = <<>> <=> ~heard("destinations")
  <2>1. CASE ~heard("destinations")
    BY <2>1, <1>3
  <2>2. CASE heard("destinations")
    <3>1. 1 \in DOMAIN a.destinations
      BY <2>2, <1>3, <1>5
    <3> QED BY <2>2, <3>1
  <2> QED BY <2>1, <2>2
<1> HIDE DEF a, heard, Value, cities, nights
<1>10. AreFields(a)
  BY <1>2, <1>6, <1>8 DEF AreFields
<1>11. /\ "budget" \in a.missing <=> a.budget = None
       /\ "destinations" \in a.missing <=> a.destinations = <<>>
       /\ a.budget \in BudgetsSaid(msg) \cup {None}
       /\ a.budget # 0
  BY <1>2, <1>6, <1>7, <1>9
<1> QED BY <1>2, <1>10, <1>11 DEF Honest, BudgetIsMeant, a

\* normalize_budget finds a number, and unless numbers touch one that was said for the
\* budget or counts something else.
LEMMA FoundIsMeant ==
    ASSUME NEW msg, IsMessage(msg), NormalizeBudget(msg) # None
    PROVE  NormalizeBudget(msg) \in Nat /\ BudgetIsMeant(msg, NormalizeBudget(msg))
<1> DEFINE found == NormalizeBudget(msg)
           run == Compact(msg)
           tens(i) == run[i].number * 10000
           both(i) == run[run[i].first - 1].number * 10000 + run[i].number * 1000
<1>1. /\ Len(msg) \in Nat /\ DOMAIN msg = 1 .. Len(msg)
      /\ \A i \in DOMAIN msg : IsWord(msg[i])
      /\ \A at \in SUBSET DOMAIN msg : at # {} => Min(at) \in at
  BY PositionsOf
<1>2. \A i \in DOMAIN msg : run[i].number \in Nat
  BY RunsAreNumbers
<1>3. \/ ManCheon(msg) # {} /\ found = both(Min(ManCheon(msg)))
      \/ ManCheon(msg) = {} /\ Man(msg) # {} /\ found = tens(Min(Man(msg)))
      \/ /\ NoDuration(msg) # {} /\ found = run[Min(NoDuration(msg))].number
         /\ \A i \in DOMAIN msg : msg[i].unit \notin {"man", "cheon", "incheon"}
  BY DEF NormalizeBudget
<1>4. ASSUME NEW i \in DOMAIN msg, msg[i].slot = "budget"
      PROVE  msg[i].value \in BudgetsSaid(msg)
  BY <1>4 DEF BudgetsSaid, Said
<1>5. NumbersAreMeant(msg)
  BY DEF IsMessage
<1>6. \A i \in DOMAIN msg : msg[i].unit \in {"man", "cheon"} => msg[i].scale > 1
  <2> TAKE i \in DOMAIN msg
  <2>1. IsWord(msg[i])
    BY <1>1
  <2> QED BY <2>1 DEF IsWord
<1>7. ASSUME ~NumbersTouch(msg)
      PROVE  \A i \in DOMAIN msg :
                /\ msg[i].scale > 1 => /\ run[i].number = msg[i].number /\ run[i].first = i
                                       /\ run[i].scale = msg[i].scale
                /\ msg[i].scale = 1 /\ run[i].scale > 1 =>
                      i - 1 \in DOMAIN msg /\ run[i].number = msg[i - 1].number
  BY <1>7, RunsOfOneWord
<1>8. /\ \A i \in Whole(msg) : i \in DOMAIN msg /\ run[i].scale > 1
      /\ \A i \in DOMAIN msg : run[i].scale > 1 /\ msg[i].unit # "space" => i \in Whole(msg)
      /\ \A i \in Man(msg) : i \in Whole(msg) /\ msg[i].unit = "man"
      /\ \A i \in ManCheon(msg) : /\ i \in Whole(msg) /\ msg[i].unit = "cheon"
                                   /\ run[i].first - 1 \in Man(msg)
      /\ \A i \in Whole(msg) : msg[i].unit = "cheon" /\ run[i].first - 1 \in Man(msg) =>
                                   i \in ManCheon(msg)
      /\ \A i \in NoDuration(msg) : i \in Whole(msg)
  BY DEF Whole, Man, ManCheon, NoDuration
<1> HIDE DEF run
<1>9. /\ ManCheon(msg) # {} => Min(ManCheon(msg)) \in ManCheon(msg)
      /\ Man(msg) # {} => Min(Man(msg)) \in Man(msg)
      /\ NoDuration(msg) # {} => Min(NoDuration(msg)) \in NoDuration(msg)
  <2>1. /\ Man(msg) \in SUBSET DOMAIN msg
        /\ ManCheon(msg) \in SUBSET DOMAIN msg
        /\ NoDuration(msg) \in SUBSET DOMAIN msg
    BY <1>8
  <2> QED BY <1>1, <2>1
<1>10. CASE ManCheon(msg) # {} /\ found = both(Min(ManCheon(msg)))
  <2> DEFINE i == Min(ManCheon(msg))
             k == run[i].first - 1
  <2>1. i \in ManCheon(msg)
    BY <1>9, <1>10
  <2>4. found = run[k].number * 10000 + run[i].number * 1000
    BY <1>10
  <2>2. i \in DOMAIN msg /\ k \in DOMAIN msg /\ msg[i].unit = "cheon" /\ msg[k].unit = "man"
    BY <1>8, <2>1
  <2> HIDE DEF i
  <2>3. run[i].number \in Nat /\ run[k].number \in Nat
    BY <1>2, <2>2
  <2>5. ASSUME ~NumbersTouch(msg) PROVE found \in BudgetsSaid(msg)
    <3>1. msg[i].scale > 1 /\ msg[k].scale > 1
      BY <1>6, <2>2
    <3>2. run[i].first = i /\ run[i].number = msg[i].number /\ run[k].number = msg[k].number
      BY <1>7, <2>2, <2>5, <3>1
    <3>3. k = i - 1 /\ k + 1 = i /\ k < Len(msg)
      BY <1>1, <2>2, <3>2
    <3>4. SaysBudget(msg[i], msg[k].number * 10000 + msg[i].number * 1000)
      BY <1>5, <2>2, <3>3 DEF NumbersAreMeant
    <3> QED BY <1>4, <2>2, <2>4, <3>2, <3>4 DEF SaysBudget
  <2>6. found \in Nat
    <3> HIDE DEF found, k
    <3> QED BY <2>3, <2>4
  <2> QED BY <2>5, <2>6 DEF BudgetIsMeant
<1>11. CASE ManCheon(msg) = {} /\ Man(msg) # {} /\ found = tens(Min(Man(msg)))
  <2> DEFINE i == Min(Man(msg))
  <2>1. i \in Man(msg)
    BY <1>9, <1>11
  <2>2. i \in DOMAIN msg /\ msg[i].unit = "man" /\ run[i].number \in Nat
    BY <1>2, <1>8, <2>1
  <2> HIDE DEF i
  <2>3. found = run[i].number * 10000
    BY <1>11 DEF i
  <2>4. ASSUME ~NumbersTouch(msg) PROVE found \in BudgetsSaid(msg)
    <3>1. msg[i].scale > 1 /\ run[i].number = msg[i].number
      BY <1>6, <1>7, <2>2, <2>4
    <3>2. ~ (i < Len(msg) /\ msg[i + 1].unit = "cheon")
      <4> SUFFICES ASSUME i < Len(msg), msg[i + 1].unit = "cheon" PROVE FALSE
        OBVIOUS
      <4>1. i + 1 \in DOMAIN msg /\ (i + 1) - 1 = i
        BY <1>1, <2>2
      <4>2. msg[i + 1].scale > 1
        BY <1>6, <4>1
      <4>3. run[i + 1].first = i + 1 /\ run[i + 1].scale > 1
        BY <1>7, <2>4, <4>1, <4>2
      <4>4. i + 1 \in Whole(msg)
        BY <1>8, <4>1, <4>3
      <4>5. i + 1 \in ManCheon(msg)
        BY <1>8, <2>1, <4>1, <4>3, <4>4
      <4> QED BY <1>11, <4>5
    <3>3. SaysBudget(msg[i], msg[i].number * 10000)
      BY <1>5, <2>2, <3>2 DEF NumbersAreMeant
    <3> QED BY <1>4, <2>2, <2>3, <3>1, <3>3 DEF SaysBudget
  <2>5. found \in Nat
    <3> HIDE DEF found
    <3> QED BY <2>2, <2>3
  <2> QED BY <2>4, <2>5 DEF BudgetIsMeant
<1>12. CASE /\ NoDuration(msg) # {} /\ found = run[Min(NoDuration(msg))].number
            /\ \A i \in DOMAIN msg : msg[i].unit \notin {"man", "cheon", "incheon"}
  <2> DEFINE i == Min(NoDuration(msg))
  <2>1. i \in NoDuration(msg)
    BY <1>9, <1>12
  <2>2. i \in DOMAIN msg /\ run[i].scale > 1 /\ run[i].number \in Nat
    BY <1>2, <1>8, <2>1
  <2> HIDE DEF i
  <2>3. found = run[i].number
    BY <1>12 DEF i
  <2>4. ASSUME NEW k \in DOMAIN msg
        PROVE  msg[k].number \in BudgetsSaid(msg) \/ msg[k].number < MIN_BUDGET_ABSOLUTE
    BY <1>4, <1>5, <1>12 DEF NumbersAreMeant, SaysBudget
  <2>5. ASSUME ~NumbersTouch(msg)
        PROVE  \E k \in DOMAIN msg : found = msg[k].number
    <3>1. msg[i].scale = 1 \/ msg[i].scale > 1
      <4>1. IsWord(msg[i])
        BY <1>1, <2>2
      <4> QED BY <4>1 DEF IsWord
    <3> HIDE DEF found
    <3> QED BY <1>7, <2>2, <2>3, <2>5, <3>1
  <2>6. BudgetIsMeant(msg, found) /\ found \in Nat
    <3> HIDE DEF found
    <3> QED BY <2>2, <2>3, <2>4, <2>5 DEF BudgetIsMeant
  <2> QED BY <2>6
<1> HIDE DEF tens, both
<1> QED BY <1>3, <1>10, <1>11, <1>12

\* A repaired budget is meant.
LEMMA RepairBudgetIsHonest ==
    ASSUME NEW msg, IsMessage(msg), NEW a, Honest(msg, a)
    PROVE  Honest(msg, RepairBudget(msg, a))
<1> DEFINE found == NormalizeBudget(msg)
<1>1. found # None => found \in Nat /\ BudgetIsMeant(msg, found)
  BY FoundIsMeant
<1> HIDE DEF found
<1>2. CASE a.budget \in {None, 0} /\ found \notin {None, 0}
  <2> DEFINE b == RepairBudget(msg, a)
  <2>1. /\ b = [a EXCEPT !.budget = found, !.missing = @ \ {"budget"}]
        /\ {"budget", "missing"} \subseteq DOMAIN a
    BY <1>2 DEF RepairBudget, found, Honest, FieldNames
  <2>2. /\ DOMAIN b = DOMAIN a /\ b.budget = found /\ b.missing = a.missing \ {"budget"}
        /\ b.origin = a.origin /\ b.destinations = a.destinations /\ b.pax = a.pax
        /\ b.dates = a.dates /\ b.themes = a.themes
    <3> HIDE DEF b
    <3> QED BY <2>1 DEF Honest, FieldNames
  <2> HIDE DEF b
  <2>3. AreFields(b)
    BY <1>1, <1>2, <2>2 DEF Honest, AreFields
  <2> QED BY <1>1, <1>2, <2>2, <2>3 DEF Honest, b
<1>3. CASE ~ (a.budget \in {None, 0} /\ found \notin {None, 0})
  BY <1>3 DEF RepairBudget, found
<1> QED BY <1>2, <1>3

\* The nights the normalizer finds leave an answer honest.
LEMMA RepairNightsIsHonest ==
    ASSUME NEW msg, IsMessage(msg), NEW a, Honest(msg, a)
    PROVE  Honest(msg, RepairNights(msg, a))
<1> DEFINE b == RepairNights(msg, a)
           nights == NormalizeDuration(msg)
<1>1. nights # None => nights \in Nat
  <2> DEFINE bak == Numerals(msg, "bak")
             withDays == {i \in bak : i + 1 \in Numerals(msg, "il")}
  <2>1. bak \in SUBSET DOMAIN msg /\ withDays \in SUBSET DOMAIN msg
    BY DEF Numerals
  <2>2. /\ bak # {} => Min(bak) \in DOMAIN msg
        /\ withDays # {} => Min(withDays) \in DOMAIN msg
    <3> HIDE DEF bak, withDays
    <3> QED BY <2>1, PositionsOf
  <2>3. \A i \in DOMAIN msg : msg[i].number \in Nat
    BY PositionsOf DEF IsWord
  <2>4. \/ withDays # {} /\ nights = msg[Min(withDays)].number
        \/ bak # {} /\ nights = msg[Min(bak)].number
        \/ nights = None
    BY DEF NormalizeDuration
  <2> HIDE DEF bak, withDays, nights
  <2> QED BY <2>2, <2>3, <2>4
<1> HIDE DEF nights
<1>2. CASE b = a
  BY <1>2
<1>3. CASE b # a
  <2>1. /\ b = [a EXCEPT !.destinations[1].nights = nights]
        /\ a.destinations # <<>> /\ nights # None
    BY <1>3 DEF RepairNights, nights
  <2> HIDE DEF b
  <2>2. /\ b = [a EXCEPT !.destinations = [a.destinations EXCEPT ![1] =
                  [a.destinations[1] EXCEPT !.nights = nights]]]
        /\ "destinations" \in DOMAIN a
    BY <2>1 DEF Honest, FieldNames
  <2>3. /\ DOMAIN b = DOMAIN a /\ b.budget = a.budget /\ b.missing = a.missing
        /\ b.origin = a.origin /\ b.pax = a.pax /\ b.dates = a.dates /\ b.themes = a.themes
        /\ b.destinations = [a.destinations EXCEPT ![1] =
                  [a.destinations[1] EXCEPT !.nights = nights]]
    BY <2>2 DEF Honest, FieldNames
  <2>4. /\ DOMAIN b.destinations = DOMAIN a.destinations
        /\ \A i \in DOMAIN a.destinations : b.destinations[i].nights \in Nat \cup {None}
    BY <1>1, <2>1, <2>3 DEF Honest, AreFields
  <2>5. b.destinations = <<>> <=> a.destinations = <<>>
    BY <2>1, <2>3, <2>4
  <2>6. AreFields(b)
    BY <2>3, <2>4 DEF Honest, AreFields
  <2> QED BY <2>3, <2>5, <2>6 DEF Honest, b
<1> QED BY <1>2, <1>3

\* So does the head count.
LEMMA RepairPaxIsHonest ==
    ASSUME NEW msg, IsMessage(msg), NEW a, Honest(msg, a)
    PROVE  Honest(msg, RepairPax(msg, a))
<1> DEFINE b == RepairPax(msg, a)
           count == NormalizeHeadcount(msg)
<1>1. count # None => count \in Nat
  <2> DEFINE persons == Numerals(msg, "myeong")
  <2>1. persons \in SUBSET DOMAIN msg
    BY DEF Numerals
  <2>2. persons # {} => Min(persons) \in DOMAIN msg
    <3> HIDE DEF persons
    <3> QED BY <2>1, PositionsOf
  <2>3. \A i \in DOMAIN msg : msg[i].number \in Nat
    BY PositionsOf DEF IsWord
  <2>4. \/ count \in {1, 2, None}
        \/ persons # {} /\ count = msg[Min(persons)].number
    BY DEF NormalizeHeadcount
  <2> HIDE DEF persons, count
  <2> QED BY <2>2, <2>3, <2>4
<1> HIDE DEF count
<1>2. CASE b = a
  BY <1>2
<1>3. CASE b # a
  <2>1. /\ b = [a EXCEPT !.pax.adult = count] /\ count # None
    BY <1>3 DEF RepairPax, count
  <2> HIDE DEF b
  <2>2. /\ b = [a EXCEPT !.pax = [a.pax EXCEPT !.adult = count]] /\ "pax" \in DOMAIN a
    BY <2>1 DEF Honest, FieldNames
  <2>3. /\ DOMAIN b = DOMAIN a /\ b.budget = a.budget /\ b.missing = a.missing
        /\ b.origin = a.origin /\ b.destinations = a.destinations
        /\ b.dates = a.dates /\ b.themes = a.themes
        /\ b.pax = [a.pax EXCEPT !.adult = count]
    BY <2>2 DEF Honest, FieldNames
  <2>4. b.pax \in [adult : Nat, child : Nat]
    BY <1>1, <2>1, <2>3 DEF Honest, AreFields
  <2>5. AreFields(b)
    BY <2>3, <2>4 DEF Honest, AreFields
  <2> QED BY <2>3, <2>5 DEF Honest, b
<1> QED BY <1>2, <1>3

\* The profile fills in the origin, and leaves the rest.
LEMMA FillFromProfileIsHonest ==
    ASSUME NEW msg, NEW a, Honest(msg, a)
    PROVE  Honest(msg, FillFromProfile(a))
<1> DEFINE b == FillFromProfile(a)
<1>1. CASE b = a
  BY <1>1
<1>2. CASE b # a
  <2>1. b = [a EXCEPT !.origin = Profile]
    BY <1>2 DEF FillFromProfile
  <2> HIDE DEF b
  <2>2. /\ DOMAIN b = DOMAIN a /\ b.budget = a.budget /\ b.missing = a.missing
        /\ b.origin = Profile /\ b.destinations = a.destinations
        /\ b.dates = a.dates /\ b.themes = a.themes /\ b.pax = a.pax
    BY <2>1 DEF Honest, FieldNames
  <2>3. AreFields(b)
    BY <2>2 DEF Honest, AreFields
  <2> QED BY <2>2, <2>3 DEF Honest, b
<1> QED BY <1>1, <1>2

\* What a response shows of a card has its types and asks for what it lacks.
HonestlyShown(s) ==
    /\ AreFields(s.fields)
    /\ "budget" \in s.asked <=> s.fields.budget = None
    /\ "destinations" \in s.asked <=> s.fields.destinations = <<>>

\* The card kept with a message, with its warnings.
HonestCard(msg, card) ==
    /\ HonestlyShown(Shown(card))
    /\ \/ NumbersTouch(msg)
       \/ card.fields.budget \in BudgetsSaid(msg) \cup {None}
       \/ "unreally_low" \in card.warnings

\* The card asks for what is missing, and flags a budget nobody said.
LEMMA CardsAreHonest ==
    ASSUME NEW msg, IsMessage(msg), NEW missed
    PROVE  HonestCard(msg, Card(msg, ClaudeAnswer(msg, missed)))
<1> DEFINE a == FillFromProfile(ApplyNormalizer(msg, ClaudeAnswer(msg, missed)))
           card == Card(msg, ClaudeAnswer(msg, missed))
<1>1. Honest(msg, a)
  BY ClaudeIsHonest, RepairBudgetIsHonest, RepairNightsIsHonest, RepairPaxIsHonest,
     FillFromProfileIsHonest DEF ApplyNormalizer
<1>2. /\ card.fields = [f \in DOMAIN a \ {"missing"} |-> a[f]]
      /\ card.missing = a.missing
      /\ card.warnings = GenerateWarnings(a)
  BY DEF Card
<1> HIDE DEF a, card
<1>3. /\ card.fields.origin = a.origin /\ card.fields.destinations = a.destinations
      /\ card.fields.budget = a.budget /\ card.fields.pax = a.pax
      /\ card.fields.dates = a.dates /\ card.fields.themes = a.themes
  BY <1>1, <1>2 DEF Honest, FieldNames
<1>4. AreFields(card.fields)
  BY <1>1, <1>3 DEF Honest, AreFields
<1>5. ASSUME ~NumbersTouch(msg), a.budget \notin BudgetsSaid(msg) \cup {None}
      PROVE  "unreally_low" \in card.warnings
  <2>1. a.budget < MIN_BUDGET_ABSOLUTE /\ a.budget # None
    BY <1>1, <1>5 DEF Honest, BudgetIsMeant
  <2>2. "unreally_low" \in BudgetWarnings(a)
    BY <2>1 DEF BudgetWarnings, Raised
  <2> QED BY <1>2, <2>2 DEF GenerateWarnings
<1>6. HonestlyShown(Shown(card))
  <2>1. Shown(card).fields = card.fields /\ Shown(card).asked = a.missing \cap REQUIRED_SLOTS
    BY <1>2 DEF Shown, AskedFor
  <2> QED BY <1>1, <1>3, <1>4, <2>1 DEF HonestlyShown, Honest, REQUIRED_SLOTS
<1> QED BY <1>3, <1>5, <1>6 DEF HonestCard, card

-----------------------------------------------------------------------------
(* The inductive invariant *)

IsEntry(e) == e = [said |-> e.said, card |-> e.card, confirmed |-> e.confirmed]

\* An entry of the cache, with an honest card made of a message.
GoodEntry(e) ==
    IsEntry(e) /\ IsMessage(e.said) /\ HonestCard(e.said, e.card) /\ e.confirmed \in BOOLEAN

\* A cached card is the one shown under its id, and agreed to once confirmed.
CacheIsShown ==
    \A p \in DOMAIN cache :
        /\ p \in Ids
        /\ GoodEntry(cache[p])
        /\ <<p, Shown(cache[p].card)>> \in shown
        /\ cache[p].confirmed => <<p, Shown(cache[p].card)>> \in agreed

AgreedFields == {s[2].fields : s \in agreed}

\* What a request remembers was shown, agreed to or inserted when it read it.
RequestsRemember ==
    /\ DOMAIN req = Requests
    /\ \A w \in Requests :
          /\ req[w].step \in {"idle", "confirm", "insert", "queue"}
          /\ At(w, "confirm") => /\ req[w].id \in Ids
                                 /\ GoodEntry(req[w].entry)
                                 /\ <<req[w].id, Shown(req[w].entry.card)>> \in shown
          /\ At(w, "insert") => req[w].id \in Ids /\ req[w].fields \in AgreedFields
          /\ At(w, "queue") => \E plan \in plans : plan.run = req[w].run

\* Every run has one plan at most, made of fields that were agreed to.
PlansAreAgreed ==
    \A plan \in plans :
        /\ plan.run \in RunIds /\ plan.from \in Ids
        /\ plan.fields \in AgreedFields
        /\ \A other \in plans : other.run = plan.run => other = plan

\* What is shown is honest, what is agreed to was shown.
ShownIsHonest ==
    /\ \A s \in shown : HonestlyShown(s[2])
    /\ agreed \subseteq shown

Inv ==
    /\ CacheIsShown
    /\ RequestsRemember
    /\ PlansAreAgreed
    /\ ShownIsHonest
    /\ queued \subseteq RunIds
    /\ today \in 0 .. LastDay

-----------------------------------------------------------------------------
\* The initial state has nothing to be true of.
LEMMA InitInv == Init => Inv
BY IntentGateAssumption
   DEF Init, Inv, CacheIsShown, RequestsRemember, PlansAreAgreed, ShownIsHonest, At, Idle,
       IntentGateAssumption

\* Only a parse and a confirm write to the cache, and they write what is shown.
LEMMA ParseKeepsInv ==
    ASSUME Inv, NEW msg, IsMessage(msg), NEW p \in Ids, ParseIntent(msg, p)
    PROVE  Inv'
<1>1. PICK missed \in SUBSET SaidSlots(msg) :
          /\ CacheSet(p, [said |-> msg, card |-> Card(msg, ClaudeAnswer(msg, missed)),
                          confirmed |-> FALSE])
          /\ shown' = shown \cup {<<p, Shown(Card(msg, ClaudeAnswer(msg, missed)))>>}
    BY DEF ParseIntent
<1> DEFINE card == Card(msg, ClaudeAnswer(msg, missed))
<1>0. HonestCard(msg, card)
    BY CardsAreHonest
<1> HIDE DEF card
<1>2. /\ cache' = [q \in DOMAIN cache \cup {p} |->
                      IF q = p THEN [said |-> msg, card |-> card, confirmed |-> FALSE]
                      ELSE cache[q]]
      /\ shown' = shown \cup {<<p, Shown(card)>>}
    BY <1>1 DEF CacheSet, card
<1>3. UNCHANGED <<req, plans, queued, today, agreed>>
    BY DEF ParseIntent
<1>4. CacheIsShown'
    BY <1>0, <1>2, <1>3 DEF Inv, CacheIsShown, GoodEntry, IsEntry
<1>5. RequestsRemember'
    BY <1>2, <1>3 DEF Inv, RequestsRemember, At, AgreedFields
<1>6. PlansAreAgreed'
    BY <1>3 DEF Inv, PlansAreAgreed, AgreedFields
<1>7. ShownIsHonest'
    BY <1>0, <1>2, <1>3 DEF Inv, ShownIsHonest, HonestCard
<1> QED BY <1>3, <1>4, <1>5, <1>6, <1>7 DEF Inv

\* A confirmation reads an entry that was shown.
LEMMA ReadForConfirmKeepsInv ==
    ASSUME Inv, NEW w \in Requests, NEW p \in Ids, ReadForConfirm(w, p)
    PROVE  Inv'
<1>1. CacheIsShown'
    BY DEF Inv, CacheIsShown, ReadForConfirm
<1>2. RequestsRemember'
    BY DEF Inv, RequestsRemember, CacheIsShown, ReadForConfirm, At, AgreedFields
<1>3. PlansAreAgreed'
    BY DEF Inv, PlansAreAgreed, ReadForConfirm, AgreedFields
<1>4. ShownIsHonest' /\ UNCHANGED <<queued, today>>
    BY DEF Inv, ShownIsHonest, ReadForConfirm
<1> QED BY <1>1, <1>2, <1>3, <1>4 DEF Inv

\* It stores the agreed fields of the entry it read.
LEMMA SaveConfirmKeepsInv ==
    ASSUME Inv, NEW w \in Requests, SaveConfirm(w)
    PROVE  Inv'
<1> DEFINE entry == req[w].entry
           id == req[w].id
<1>1. id \in Ids /\ GoodEntry(entry) /\ <<id, Shown(entry.card)>> \in shown
    BY DEF Inv, RequestsRemember, SaveConfirm
<1>3. /\ cache' = [q \in DOMAIN cache \cup {id} |->
                      IF q = id
                      THEN [said |-> entry.said, card |-> entry.card, confirmed |-> TRUE]
                      ELSE cache[q]]
      /\ agreed' = agreed \cup {<<id, Shown(entry.card)>>}
      /\ req' = [req EXCEPT ![w] = Idle]
      /\ UNCHANGED <<plans, queued, today, shown>>
    BY DEF SaveConfirm, CacheSet, Return
<1> HIDE DEF entry, id
<1>4. CacheIsShown'
    BY <1>1, <1>3 DEF Inv, CacheIsShown, GoodEntry, IsEntry
<1>5. AgreedFields \subseteq AgreedFields'
    BY <1>3 DEF AgreedFields
<1>6. RequestsRemember'
    BY <1>3, <1>5 DEF Inv, RequestsRemember, At, Idle
<1>7. PlansAreAgreed'
    BY <1>3, <1>5 DEF Inv, PlansAreAgreed
<1>8. ShownIsHonest'
    BY <1>1, <1>3 DEF Inv, ShownIsHonest
<1> QED BY <1>3, <1>4, <1>6, <1>7, <1>8 DEF Inv

\* A run reads a confirmed entry, which was agreed to: what it remembers of it
\* needs no cache any more.
LEMMA ReadForRunKeepsInv ==
    ASSUME Inv, NEW w \in Requests, NEW p \in Ids, ReadForRun(w, p)
    PROVE  Inv'
<1>1. cache[p].card.fields \in AgreedFields
  <2>1. <<p, Shown(cache[p].card)>> \in agreed
    BY DEF Inv, CacheIsShown, ReadForRun
  <2> QED BY <2>1 DEF AgreedFields, Shown
<1>2. CacheIsShown'
    BY DEF Inv, CacheIsShown, ReadForRun
<1>3. RequestsRemember'
    BY <1>1 DEF Inv, CacheIsShown, RequestsRemember, ReadForRun, At, AgreedFields
<1>4. PlansAreAgreed'
    BY DEF Inv, PlansAreAgreed, ReadForRun, AgreedFields
<1>5. ShownIsHonest' /\ UNCHANGED <<queued, today>>
    BY DEF Inv, ShownIsHonest, ReadForRun
<1> QED BY <1>2, <1>3, <1>4, <1>5 DEF Inv

\* A run is created from the fields its request read.
LEMMA CreateKeepsInv ==
    ASSUME Inv, NEW w \in Requests, NEW r \in RunIds, CreateRequestAndPlan(w, r)
    PROVE  Inv'
<1>1. req[w].fields \in AgreedFields /\ req[w].id \in Ids
    BY DEF Inv, RequestsRemember, CreateRequestAndPlan
<1>2. CacheIsShown'
    BY DEF Inv, CacheIsShown, CreateRequestAndPlan
<1>3. RequestsRemember'
  <2>1. req' = [req EXCEPT ![w] = [step |-> "queue", run |-> r]]
    BY DEF CreateRequestAndPlan
  <2>2. DOMAIN req = Requests /\ DOMAIN req' = Requests
    BY <2>1 DEF Inv, RequestsRemember
  <2>3. \E plan \in plans' : plan.run = r
    <3> DEFINE plan == [run |-> r, from |-> req[w].id, fields |-> req[w].fields]
    <3>1. plan \in plans' /\ plan.run = r
      BY DEF CreateRequestAndPlan
    <3> QED BY <3>1
  <2>4. req'[w].step = "queue" /\ req'[w].run = r
    BY <2>1, <2>2
  <2>5. \A v \in Requests \ {w} : req'[v] = req[v]
    BY <2>1, <2>2
  <2>6. plans \subseteq plans' /\ UNCHANGED <<shown, agreed>>
    BY DEF CreateRequestAndPlan
  <2>7. AgreedFields' = AgreedFields
    BY <2>6 DEF AgreedFields
  <2> QED BY <2>2, <2>3, <2>4, <2>5, <2>6, <2>7 DEF Inv, RequestsRemember, At
<1>4. PlansAreAgreed'
    BY <1>1 DEF Inv, PlansAreAgreed, CreateRequestAndPlan, IsFresh, AgreedFields
<1>5. ShownIsHonest' /\ UNCHANGED <<queued, today>>
    BY DEF Inv, ShownIsHonest, CreateRequestAndPlan
<1> QED BY <1>2, <1>3, <1>4, <1>5 DEF Inv

\* Whatever is parsed is a message: text behind what was said before.
LEMMA ParsesAreOfMessages ==
    ASSUME Inv, NEW p \in Ids, NEW text \in Utterances,
           \/ ParseRequest(text, p)
           \/ \E q \in Ids : ParseAnswer(q, text, p) \/ ParseCorrect(q, text, p)
    PROVE  \E msg : IsMessage(msg) /\ ParseIntent(msg, p)
<1>1. CASE ParseRequest(text, p)
    BY <1>1, MessagesGrow DEF ParseRequest
<1>2. ASSUME NEW q \in Ids, ParseAnswer(q, text, p) \/ ParseCorrect(q, text, p)
      PROVE  \E msg : IsMessage(msg) /\ ParseIntent(msg, p)
  <2>1. IsMessage(cache[q].said)
    BY <1>2 DEF Inv, CacheIsShown, GoodEntry, ParseAnswer, ParseCorrect
  <2> QED BY <1>2, <2>1, MessagesGrow DEF ParseAnswer, ParseCorrect
<1> QED BY <1>1, <1>2

\* Every step keeps the invariant.
LEMMA NextKeepsInv == Inv /\ [Next]_vars => Inv'
<1> SUFFICES ASSUME Inv, [Next]_vars PROVE Inv'
    OBVIOUS
<1>1. ASSUME NEW p \in Ids, NEW text \in Utterances,
             \/ ParseRequest(text, p)
             \/ \E q \in Ids : ParseAnswer(q, text, p) \/ ParseCorrect(q, text, p)
      PROVE  Inv'
    BY <1>1, ParsesAreOfMessages, ParseKeepsInv
<1>2. ASSUME NEW w \in Requests, QueueRun(w) \/ Fail(w)
      PROVE  Inv'
  <2>1. /\ req' = [req EXCEPT ![w] = Idle]
        /\ UNCHANGED <<cache, plans, today, shown, agreed>>
    BY <1>2 DEF QueueRun, Fail, Return
  <2>2. queued' \subseteq RunIds
    <3>1. CASE QueueRun(w)
      <4>1. PICK plan \in plans : plan.run = req[w].run
        BY <3>1 DEF QueueRun, Inv, RequestsRemember
      <4> QED BY <3>1, <4>1 DEF QueueRun, Inv, PlansAreAgreed
    <3> QED BY <1>2, <3>1 DEF Fail, Inv
  <2> QED BY <2>1, <2>2 DEF Inv, CacheIsShown, RequestsRemember, PlansAreAgreed,
                            ShownIsHonest, At, Idle, AgreedFields
<1>3. ASSUME NEW p \in Ids, Expire(p)
      PROVE  Inv'
    BY <1>3 DEF Expire, Inv, CacheIsShown, RequestsRemember, PlansAreAgreed, ShownIsHonest,
                At, AgreedFields
<1>4. ASSUME UNCHANGED <<cache, req, plans, shown, agreed>>,
             queued' \subseteq RunIds, today' \in 0 .. LastDay
      PROVE  Inv'
    BY <1>4 DEF Inv, CacheIsShown, RequestsRemember, PlansAreAgreed, ShownIsHonest, At,
                AgreedFields
<1>5. ASSUME NextDay \/ UNCHANGED vars \/ \E r \in RunIds : RunMessage(r)
      PROVE  /\ UNCHANGED <<cache, req, plans, shown, agreed>>
             /\ queued' \subseteq RunIds /\ today' \in 0 .. LastDay
    BY <1>5, IntentGateAssumption DEF NextDay, RunMessage, vars, Inv, IntentGateAssumption
<1> QED
    BY <1>1, <1>2, <1>3, <1>4, <1>5, ReadForConfirmKeepsInv, SaveConfirmKeepsInv,
       ReadForRunKeepsInv, CreateKeepsInv
    DEF Next

\* The invariant of the specification.
THEOREM Invariance == Spec => []Inv
BY InitInv, NextKeepsInv, PTL DEF Spec

\* Cached cards, rows and requests keep their types: the repairs of parse_intent
\* turn whatever was said, and whatever Claude missed, into fields of their type.
THEOREM TypeCorrectness == Spec => []TypeOK
<1>1. Inv => TypeOK
  <2> SUFFICES ASSUME Inv PROVE TypeOK
    OBVIOUS
  <2>1. \A p \in DOMAIN cache :
           p \in Ids /\ cache[p].confirmed \in BOOLEAN /\ AreFields(cache[p].card.fields)
    BY DEF Inv, CacheIsShown, GoodEntry, HonestCard, HonestlyShown, Shown
  <2>2. \A plan \in plans : AreFields(plan.fields)
    BY DEF Inv, PlansAreAgreed, ShownIsHonest, AgreedFields, HonestlyShown
  <2> QED BY <2>1, <2>2 DEF TypeOK, Inv, RequestsRemember, PlansAreAgreed
<1> QED BY <1>1, Invariance, PTL

\* The question put to the user is about the slots the card has nothing for, and
\* about all of those that are required (_apply_normalizer, validate_slots).
THEOREM QuestionsAreRight == Spec => []AsksForWhatIsMissing
<1>1. Inv => AsksForWhatIsMissing
    BY DEF Inv, ShownIsHonest, HonestlyShown, AsksForWhatIsMissing
<1> QED BY <1>1, Invariance, PTL

\* In a message in which no two numbers touch, a budget normalize_budget made of another
\* number is never kept without the warning that it is too low to be real
\* (_check_budget_warnings).
THEOREM InventionsAreFlagged == Spec => []InventionIsFlaggedUnlessNumbersTouch
<1>1. Inv => InventionIsFlaggedUnlessNumbersTouch
    BY DEF Inv, CacheIsShown, GoodEntry, HonestCard, InventionIsFlaggedUnlessNumbersTouch
<1> QED BY <1>1, Invariance, PTL

-----------------------------------------------------------------------------
\* The first state is one of the promise.
LEMMA InitRefines == Init => Promise!Init
BY DEF Init, Promise!Init, Started

\* A parse shows a card.
LEMMA ParseRefines ==
    ASSUME Inv, NEW msg, NEW p \in Ids, ParseIntent(msg, p)
    PROVE  Promise!Show
<1>1. PICK missed \in SUBSET SaidSlots(msg) :
          shown' = shown \cup {<<p, Shown(Card(msg, ClaudeAnswer(msg, missed)))>>}
    BY DEF ParseIntent
<1> DEFINE s == <<p, Shown(Card(msg, ClaudeAnswer(msg, missed)))>>
<1>2. s[1] = p /\ shown' = shown \cup {s}
    BY <1>1
<1> HIDE DEF s
<1>3. \A earlier \in shown : earlier[1] # s[1]
    BY <1>2 DEF ParseIntent
<1>4. UNCHANGED <<agreed, Started>>
    BY DEF ParseIntent, Started
<1>5. s \in shown' \ shown
    BY <1>2, <1>3
<1> QED BY <1>2, <1>3, <1>4, <1>5 DEF Promise!Show

\* A confirmation agrees to a card that was shown.
LEMMA SaveConfirmRefines ==
    ASSUME Inv, NEW w \in Requests, SaveConfirm(w)
    PROVE  Promise!Agree
<1>1. /\ <<req[w].id, Shown(req[w].entry.card)>> \in shown
      /\ agreed' = agreed \cup {<<req[w].id, Shown(req[w].entry.card)>>}
    BY DEF Inv, RequestsRemember, SaveConfirm
<1>2. UNCHANGED <<shown, Started>>
    BY DEF SaveConfirm, Started
<1> QED BY <1>1, <1>2 DEF Promise!Agree

\* The rows of a run count as its start once its task is queued.
LEMMA QueueRunRefines ==
    ASSUME Inv, NEW w \in Requests, QueueRun(w)
    PROVE  [Promise!Next]_(Promise!vars)
<1> DEFINE r == req[w].run
<1>1. PICK plan \in plans : plan.run = r
    BY DEF Inv, RequestsRemember, QueueRun
<1>2. /\ r \in RunIds
      /\ \A other \in plans : other.run = r => other = plan
    BY <1>1 DEF Inv, PlansAreAgreed
<1>3. PICK s \in agreed : s[2].fields = plan.fields
    BY <1>1 DEF Inv, PlansAreAgreed, AgreedFields
<1>4. queued' = queued \cup {r} /\ UNCHANGED <<plans, shown, agreed>>
    BY DEF QueueRun
<1> HIDE DEF r
<1>5. CASE r \in queued
  <2>1. Started' = Started
    BY <1>4, <1>5 DEF Started
  <2> QED BY <2>1, <1>4 DEF Promise!vars
<1>6. CASE r \notin queued
  <2>1. Started' = Started \cup {<<r, s[2].fields>>}
    <3>1. ASSUME NEW x \in Started' PROVE x \in Started \cup {<<r, s[2].fields>>}
      <4>1. PICK q \in plans : q.run \in queued' /\ x = <<q.run, q.fields>>
        BY <3>1, <1>4 DEF Started
      <4>2. CASE q.run \in queued
        BY <4>1, <4>2 DEF Started
      <4>3. CASE q.run = r
        BY <4>1, <4>3, <1>2, <1>3
      <4> QED BY <4>1, <4>2, <4>3, <1>4
    <3>2. Started \subseteq Started'
      BY <1>4 DEF Started
    <3>3. <<r, s[2].fields>> \in Started'
      BY <1>1, <1>3, <1>4 DEF Started
    <3> QED BY <3>1, <3>2, <3>3
  <2>2. \A earlier \in Started : earlier[1] # r
    BY <1>6 DEF Started
  <2>3. Promise!Start(r)
    BY <2>1, <2>2, <1>3, <1>4 DEF Promise!Start
  <2> QED BY <2>3, <1>2 DEF Promise!Next
<1> QED BY <1>5, <1>6

\* Rows without a task, and tasks without rows, start nothing.
LEMMA CreateOrMessageRefines ==
    ASSUME NEW r \in RunIds,
           \/ RunMessage(r)
           \/ \E w \in Requests : CreateRequestAndPlan(w, r)
    PROVE  UNCHANGED Promise!vars
<1>1. CASE RunMessage(r)
    BY <1>1 DEF RunMessage, IsFresh, Started, Promise!vars
<1>2. ASSUME NEW w \in Requests, CreateRequestAndPlan(w, r)
      PROVE  UNCHANGED Promise!vars
  <2>1. /\ r \notin queued
        /\ plans' = plans \cup {[run |-> r, from |-> req[w].id, fields |-> req[w].fields]}
        /\ UNCHANGED <<queued, shown, agreed>>
    BY <1>2 DEF CreateRequestAndPlan, IsFresh
  <2>2. Started' = Started
    BY <2>1 DEF Started
  <2> QED BY <2>1, <2>2 DEF Promise!vars
<1> QED BY <1>1, <1>2

\* Every step is one of the promise, or leaves what it speaks of alone.
LEMMA NextRefines == Inv /\ [Next]_vars => [Promise!Next]_(Promise!vars)
<1> SUFFICES ASSUME Inv, [Next]_vars PROVE [Promise!Next]_(Promise!vars)
    OBVIOUS
<1>1. ASSUME NEW p \in Ids, NEW text \in Utterances,
             \/ ParseRequest(text, p)
             \/ \E q \in Ids : ParseAnswer(q, text, p) \/ ParseCorrect(q, text, p)
      PROVE  Promise!Next
  <2>1. \E msg : ParseIntent(msg, p)
    BY <1>1 DEF ParseRequest, ParseAnswer, ParseCorrect
  <2> QED BY <2>1, ParseRefines DEF Promise!Next
<1>2. ASSUME NEW w \in Requests, SaveConfirm(w)
      PROVE  Promise!Next
    BY <1>2, SaveConfirmRefines DEF Promise!Next
<1>3. ASSUME UNCHANGED <<plans, queued, shown, agreed>>
      PROVE  UNCHANGED Promise!vars
    BY <1>3 DEF Started, Promise!vars
<1> QED
    BY <1>1, <1>2, <1>3, QueueRunRefines, CreateOrMessageRefines
    DEF Next, ReadForConfirm, ReadForRun, Fail, Expire, NextDay, vars

\* No run is started from a card its user did not agree to, as it was shown:
\* parse_confirm and run_create of agents/views.py keep the promise of
\* ConfirmedRuns for any number of requests, ids and runs.
THEOREM Refinement == Spec => ImplementsConfirmedRuns
<1>1. Init => Promise!Init
    BY InitRefines
<1>2. Inv /\ [Next]_vars => [Promise!Next]_(Promise!vars)
    BY NextRefines
<1> QED BY <1>1, <1>2, Invariance, PTL DEF Spec, ImplementsConfirmedRuns, Promise!Spec
=============================================================================
