---------------------------- MODULE MCTripSearch ----------------------------
(* Instances of TripSearch for TLC. *)
EXTENDS TripSearch

\* A couple, and parties whose rooms are decided by the children: more rooms
\* than the adults need, as many as there are adults, and too many children.
SomeParties == {[adults |-> 2, children |-> 0], [adults |-> 3, children |-> 5],
                [adults |-> 2, children |-> 4], [adults |-> 1, children |-> 3]}

Flight(price, direct, departs, arrives) ==
    [price |-> price, direct |-> direct, departs |-> departs, arrives |-> arrives]
Hotel(rates, stars, matches) == [rates |-> rates, stars |-> stars, matches |-> matches]

\* Two flights of one price, two dearer ones that are equally good, one that
\* is worse and one without a price; and four that are worth upgrading one by one.
SomeFlights ==
    { << Flight(45, TRUE, 9, 12), Flight(30, FALSE, 23, 20), Flight(30, TRUE, 9, 12),
         Flight(50, TRUE, 9, 12), Flight(60, TRUE, 23, 20), Flight(0, TRUE, 9, 12) >>,
      << Flight(30, FALSE, 9, 20), Flight(32, FALSE, 9, 12), Flight(36, TRUE, 23, 12), Flight(50, TRUE, 9, 12) >> }

\* Two hotels of one price, one without a rate, one without stars, one that
\* is free of charge; and again four that are worth upgrading one by one.
SomeHotels ==
    { << Hotel({20, 25}, 3, 0), Hotel({}, 5, 0), Hotel({30}, 5, 1), Hotel({20}, 4, 2), Hotel({26}, 0, 0), Hotel({0}, 1, 4) >>,
      << Hotel({24, 40}, 4, 0), Hotel({20}, 2, 0), Hotel({21}, 3, 0), Hotel({30}, 5, 0) >> }
=============================================================================
