---------------------------- MODULE IntentParser ----------------------------
(***************************************************************************)
(* What the agents API understands of a message: agents/parser.            *)
(*                                                                         *)
(* A message is all the user typed so far, as a sequence of words.  Claude *)
(* answers with the last thing said of each slot or misses it; the code    *)
(* then repairs the answer with regular expressions over the whole message *)
(* (normalizer.py), fills in the user's airport, collects warnings and     *)
(* decides which slots to ask for again (slot_validator.py).               *)
(***************************************************************************)
EXTENDS Integers, Sequences, FiniteSets, FiniteSetsExt

CONSTANTS
    Profile,    \* the user's default airport of departure, or None
    None

Slots == {"origin", "destinations", "nights", "budget", "pax", "dates", "themes"}

\* A word is a number in digits and what is written right behind it, or one of the
\* two.  Its unit is "man" or "cheon" (ten thousand, thousand), "bak" or "il" (nights,
\* days), "in" or "myeong" (persons), "alone", "pair", "incheon" for any other word
\* with the syllable man or cheon in it, "space" for a number with only spaces or a
\* comma behind it, "other" for the rest.  scale is 10 to the number of its digits.
\* The word may be the one that completes what is said of a slot: the 5 cheon of
\* "15 man 5 cheon" says 155,000.
Numeral(number, unit, slot, value) ==
    [number |-> number, scale |-> Min({s \in {10^k : k \in 1 .. 9} : s > number}),
     unit |-> unit, slot |-> slot, value |-> value]

Plain(unit, slot, value) ==
    [number |-> 0, scale |-> 1, unit |-> unit, slot |-> slot, value |-> value]

\* Where a message speaks of a slot, and where it has a number of some unit.
Said(msg, slot) == {i \in DOMAIN msg : msg[i].slot = slot}
Numerals(msg, unit) == {i \in DOMAIN msg : msg[i].unit = unit /\ msg[i].scale > 1}

-----------------------------------------------------------------------------
(* Claude's answer                                                         *)

\* Claude reports the last thing said of a slot unless it misses the slot; a slot
\* it has nothing for is null, or what the system prompt gives as its default,
\* and destinations, budget and dates are then listed in missing_slots.
ClaudeAnswer(msg, missed) ==
    LET Heard(slot, default) ==
            IF Said(msg, slot) = {} \/ slot \in missed THEN default
            ELSE msg[Max(Said(msg, slot))].value
        cities == Heard("destinations", <<>>)
    IN  [origin       |-> Heard("origin", None),
         destinations |-> [i \in DOMAIN cities |->
                              [city   |-> cities[i],
                               nights |-> IF i = 1 THEN Heard("nights", None) ELSE None]],
         budget       |-> Heard("budget", None),
         pax          |-> Heard("pax", [adult |-> 1, child |-> 0]),
         dates        |-> Heard("dates", None),
         themes       |-> Heard("themes", {}),
         missing      |-> {slot \in {"destinations", "budget", "dates"} :
                              Said(msg, slot) = {} \/ slot \in missed}]

IsTravelRelated(answer) ==
    \/ answer.destinations # <<>>
    \/ answer.budget \notin {None, 0}
    \/ answer.themes # {}

-----------------------------------------------------------------------------
(* normalizer.py                                                           *)

\* normalize_budget drops the spaces and commas, so that numbers nothing else stands
\* between become one: "3" and "80 man" become "380 man".  The number the digits of the
\* i-th word end up in, with the word it begins at; eaten says that the pattern of a
\* duration before it (N bak, and the digits that follow) takes it away.
Digits(before, msg, i) ==
    IF i > 1 /\ msg[i - 1].unit = "space"
    THEN [before EXCEPT !.number = @ * msg[i].scale + msg[i].number,
                        !.scale = @ * msg[i].scale]
    ELSE [number |-> msg[i].number, scale |-> msg[i].scale, first |-> i,
          eaten |-> i > 1 /\ msg[i - 1].unit = "bak" /\ before.scale > 1 /\ ~before.eaten]

Compact(msg) ==
    LET run[i \in 1 .. Len(msg)] == Digits(run[i - 1], msg, i)
    IN  run

\* The numbers of the compact text, each at the word it ends in: those of the pattern
\* N man, those that complete N man M cheon, and those outside a duration.
Whole(msg) ==
    {i \in DOMAIN msg : Compact(msg)[i].scale > 1 /\ (i = Len(msg) \/ msg[i].unit # "space")}
Man(msg) == {i \in Whole(msg) : msg[i].unit = "man"}
ManCheon(msg) ==
    {i \in Whole(msg) : msg[i].unit = "cheon" /\ Compact(msg)[i].first - 1 \in Man(msg)}
NoDuration(msg) == {i \in Whole(msg) : msg[i].unit # "bak" /\ ~Compact(msg)[i].eaten}

\* The first N man M cheon of the message, or else the first N man, or else, in a
\* message without the two syllables, the first number outside a duration.
NormalizeBudget(msg) ==
    LET Number(i) == Compact(msg)[i].number
        ManBefore(i) == Number(Compact(msg)[i].first - 1)
    IN  IF ManCheon(msg) # {}
        THEN ManBefore(Min(ManCheon(msg))) * 10000 + Number(Min(ManCheon(msg))) * 1000
        ELSE IF Man(msg) # {} THEN Number(Min(Man(msg))) * 10000
        ELSE IF /\ \A i \in DOMAIN msg : msg[i].unit \notin {"man", "cheon", "incheon"}
                /\ NoDuration(msg) # {}
             THEN Number(Min(NoDuration(msg)))
        ELSE None

\* The nights of the first N bak M il, or else those of the first N bak.
NormalizeDuration(msg) ==
    LET nights == Numerals(msg, "bak")
        withDays == {i \in nights : i + 1 \in Numerals(msg, "il")}
    IN  IF withDays # {} THEN msg[Min(withDays)].number
        ELSE IF nights # {} THEN msg[Min(nights)].number
        ELSE None

\* "alone" or a number of persons that ends in 1, as 11 does, count as one wherever
\* they stand; the same of two; or else the first N myeong.
NormalizeHeadcount(msg) ==
    LET Persons(n, word) == \E i \in DOMAIN msg :
                                \/ msg[i].unit = word
                                \/ msg[i].unit = "in" /\ msg[i].number % 10 = n
    IN  IF Persons(1, "alone") THEN 1
        ELSE IF Persons(2, "pair") THEN 2
        ELSE IF Numerals(msg, "myeong") # {} THEN msg[Min(Numerals(msg, "myeong"))].number
        ELSE None

\* The repair leaves the slot among those to ask for.
RepairBudgetOnly(msg, answer) ==
    IF answer.budget \in {None, 0} /\ NormalizeBudget(msg) \notin {None, 0}
    THEN [answer EXCEPT !.budget = NormalizeBudget(msg)]
    ELSE answer

\* A budget Claude did not report is looked for in the text; one found need not
\* be asked for.
RepairBudget(msg, answer) ==
    IF answer.budget \in {None, 0} /\ NormalizeBudget(msg) \notin {None, 0}
    THEN [answer EXCEPT !.budget = NormalizeBudget(msg), !.missing = @ \ {"budget"}]
    ELSE answer

RepairNights(msg, answer) ==
    IF /\ answer.destinations # <<>>
       /\ answer.destinations[1].nights \in {None, 0}
       /\ NormalizeDuration(msg) # None
    THEN [answer EXCEPT !.destinations[1].nights = NormalizeDuration(msg)]
    ELSE answer

\* A head count found in the text replaces the number of adults Claude reported.
RepairPax(msg, answer) ==
    IF NormalizeHeadcount(msg) \notin {None, 0}
    THEN [answer EXCEPT !.pax.adult = NormalizeHeadcount(msg)]
    ELSE answer

ApplyNormalizer(msg, answer) ==
    RepairPax(msg, RepairNights(msg, RepairBudget(msg, answer)))

\* The city of the default departure goes where its airport belongs.
FillFromProfileCity(answer) ==
    IF answer.origin = None /\ Profile # None
    THEN [answer EXCEPT !.origin = "Incheon"]
    ELSE answer

FillFromProfile(answer) ==
    IF answer.origin = None /\ Profile # None
    THEN [answer EXCEPT !.origin = Profile]
    ELSE answer

-----------------------------------------------------------------------------
(* Warnings: kept with the card and shown by parse_detail, they stop nothing *)

MIN_BUDGET_PER_PERSON == 100000
MIN_BUDGET_ABSOLUTE == 10000
MAX_BUDGET_ABSOLUTE == 100000000
MAX_PAX == 100
MAX_NIGHTS == 60
MIN_BUDGET_PER_PERSON_PER_NIGHT == 30000

\* The warnings whose condition holds.
Raised(conditions) == {w \in DOMAIN conditions : conditions[w]}

TotalPax(a) == a.pax.adult + a.pax.child

NightsOf(destination) == IF destination.nights = None THEN 0 ELSE destination.nights

TotalNights(a) ==
    LET upTo[i \in 0 .. Len(a.destinations)] ==
            IF i = 0 THEN 0 ELSE upTo[i - 1] + NightsOf(a.destinations[i])
    IN  upTo[Len(a.destinations)]

\* A budget that is low for the party is not looked at again.
BudgetWarningsElif(a) ==
    IF a.budget = None THEN {} ELSE Raised([
        low_for_the_party |-> a.budget < TotalPax(a) * MIN_BUDGET_PER_PERSON,
        unreally_low      |-> /\ a.budget >= TotalPax(a) * MIN_BUDGET_PER_PERSON
                              /\ a.budget < MIN_BUDGET_ABSOLUTE,
        unreally_high     |-> a.budget > MAX_BUDGET_ABSOLUTE])

BudgetWarnings(a) ==
    IF a.budget = None THEN {} ELSE Raised([
        low_for_the_party |-> a.budget < TotalPax(a) * MIN_BUDGET_PER_PERSON,
        unreally_low      |-> a.budget < MIN_BUDGET_ABSOLUTE,
        unreally_high     |-> a.budget > MAX_BUDGET_ABSOLUTE])

PaxWarnings(a) == Raised([
    no_adult       |-> a.pax.adult = 0,
    too_many       |-> TotalPax(a) > MAX_PAX,
    children_alone |-> a.pax.child > 0 /\ a.pax.adult = 0])

\* A destination whose nights nobody said counts as a stay of none.
DurationWarnings(a) ==
    IF a.destinations = <<>> THEN {} ELSE Raised([
        no_nights |-> TotalNights(a) = 0,
        too_long  |-> TotalNights(a) > MAX_NIGHTS])

DestinationWarnings(a) == Raised([
    nights_not_said |-> /\ Len(a.destinations) > 1
                        /\ \E i \in DOMAIN a.destinations : NightsOf(a.destinations[i]) = 0,
    all_too_long    |-> Len(a.destinations) > 1 /\ TotalNights(a) > MAX_NIGHTS,
    nowhere_to_go   |-> a.destinations = <<>> /\ a.budget \notin {None, 0}])

CrossWarnings(a) == Raised([
    low_for_the_stay |->
        /\ a.budget \notin {None, 0}
        /\ a.budget < TotalPax(a) * TotalNights(a) * MIN_BUDGET_PER_PERSON_PER_NIGHT])

GenerateWarnings(a) ==
    UNION {BudgetWarnings(a), PaxWarnings(a), DurationWarnings(a),
           DestinationWarnings(a), CrossWarnings(a)}

-----------------------------------------------------------------------------
(* parse_intent and validate_slots                                         *)

\* The card made of an answer: its fields, the slots Claude or the code found
\* missing, and the warnings.
Card(msg, answer) ==
    LET a == FillFromProfile(ApplyNormalizer(msg, answer))
    IN  [fields   |-> [f \in DOMAIN a \ {"missing"} |-> a[f]],
         missing  |-> a.missing,
         warnings |-> GenerateWarnings(a)]

REQUIRED_SLOTS == {"destinations", "budget"}

\* What the user is asked for before the card is complete.
AskedFor(card) == card.missing \cap REQUIRED_SLOTS

\* What every response with a card shows of it: its fields, and a question if there is
\* something to ask for.  The warnings are in a complete parse and in parse_detail only.
Shown(card) == [fields |-> card.fields, asked |-> AskedFor(card)]
=============================================================================
