---------------------------- MODULE MCIntentGate ----------------------------
(* An instance of IntentGate for TLC. *)
EXTENDS IntentGate, TLC

CONSTANTS w1, w2, p1, p2, r1, r2

TwoRequests == {w1, w2}
TwoIds == {p1, p2}
TwoRuns == {r1, r2}

\* "Tokyo, 3 bak, 8/1 ~ 8/3"
Where == <<Plain("other", "destinations", <<"Tokyo">>), Numeral(3, "bak", "nights", 3),
           Numeral(8, "other", None, None), Numeral(1, "other", None, None),
           Numeral(8, "other", None, None),
           Numeral(3, "space", "dates", [start |-> 0, end |-> 2])>>
\* "2 bak, from Incheon to Osaka, no, Osaka and Kyoto, 3 bak 4 il, alone"
Elsewhere == <<Numeral(2, "bak", "nights", 2), Plain("incheon", "origin", "ICN"),
               Plain("other", "destinations", <<"Osaka", "Kyoto">>),
               Numeral(3, "bak", "nights", 3), Numeral(4, "il", None, None),
               Plain("alone", "pax", [adult |-> 1, child |-> 0])>>
\* "1 child, 2 myeong"
Family == <<Numeral(1, "other", None, None),
            Numeral(2, "myeong", "pax", [adult |-> 2, child |-> 1])>>
\* "12 in" (twelve persons)
Twelve == <<Numeral(12, "in", "pax", [adult |-> 12, child |-> 0])>>
\* "80 man won", "15 man 5 cheon"
EightyMan == <<Numeral(80, "man", "budget", 800000), Plain("other", None, None)>>
FifteenManFive == <<Numeral(15, "man", None, None), Numeral(5, "cheon", "budget", 155000)>>
\* "for the food, 300,000 won"
Food == <<Plain("other", "themes", {"food"}), Numeral(300000, "other", "budget", 300000)>>

Sayings == {Where, Elsewhere, Family, Twelve, EightyMan, FifteenManFive, Food}

Symmetry == Permutations(Requests) \cup Permutations(Ids) \cup Permutations(RunIds)
=============================================================================
