---------------------------- MODULE MCItinerary ----------------------------
(* An instance of Itinerary for TLC: a trip to two cities, three days long.  *)
EXTENDS Itinerary

Minutes == [a |-> 110, b |-> 45, c |-> 60, f |-> 80, p |-> 20, A |-> 0, B |-> 0]

MCPool == {"p"}
MCFood == {"f", "p"}
MCMarked == {"A", "B"}
MCLandings == {11 * 60, 23 * 60 + 10}
MCTakeoffs == {12 * 60}
MCRegions == {"r"}

\* A leg of its own length for every pair of places.
Place == DOMAIN Minutes
Rank(x) == CHOOSE i \in 1 .. 7 : <<"a", "b", "c", "f", "p", "A", "B">>[i] = x
MCLeg == [l \in Place \X Place |-> 10 * Rank(l[1]) + Rank(l[2])]

TwoNights == <<1, 1>>
TwoAirports == <<"A", "B">>
TwoRestaurants == <<<<"r", "f">>, <<>>>>
TwoSights == <<<<"f", "a", "c">>, <<"b">>>>
=============================================================================
