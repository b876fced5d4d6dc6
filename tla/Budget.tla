------------------------------- MODULE Budget -------------------------------
(***************************************************************************)
(* agents/budget.py: allocate_budget spends a trip's budget on one flight, *)
(* one hotel and a tier of activities.  It starts from the cheapest of     *)
(* each and, while money is left, takes the upgrade that adds the most     *)
(* utility per won.                                                        *)
(*                                                                         *)
(* Money is in units of 10,000 won.  Ratios are compared exactly, where    *)
(* the code compares floats.  The callers leave reserve_ratio at 0, so all *)
(* of the budget is spendable.                                             *)
(***************************************************************************)
EXTENDS Integers, Sequences, FiniteSets

VARIABLES
    trip,      \* the request: budget, days, travelers
    flights,   \* fo and ho: the candidates that have a price, cheapest first
    hotels,
    sel,       \* the selection so far: flight, hotel, tier
    steps,     \* upgrades made
    status     \* "waiting", "upgrading" and then the status of the result

budgetVars == <<trip, flights, hotels, sel, steps, status>>

ACTIVITY_TIERS == << [krw |-> 3,  utility |-> 50],
                     [krw |-> 6,  utility |-> 70],
                     [krw |-> 10, utility |-> 85] >>

MAX_GREEDY_STEPS == 6

Options == [krw : Nat, utility : Nat]

Elements(s) == {s[i] : i \in DOMAIN s}

-----------------------------------------------------------------------------
(* Candidates *)

\* Python's sorted(): the elements of s at the indices in kept by their key,
\* those of one key in the order they had.
Precedes(key, i, j) == key[i] < key[j] \/ (key[i] = key[j] /\ i <= j)

Rank(kept, key, j) == Cardinality({i \in kept : Precedes(key, i, j)})

SortedBy(s, kept, key) ==
    [n \in 1 .. Cardinality(kept) |-> s[CHOOSE j \in kept : Rank(kept, key, j) = n]]

CheapestFirst(options) ==
    SortedBy(options, {i \in DOMAIN options : options[i].krw > 0},
             [i \in DOMAIN options |-> options[i].krw])

-----------------------------------------------------------------------------
(* Selections *)

ActivityCost(tier) == ACTIVITY_TIERS[tier].krw * trip.days * trip.travelers

Total(s) == s.flight.krw + s.hotel.krw + ActivityCost(s.tier)

Utility(s) == s.flight.utility + s.hotel.utility + ACTIVITY_TIERS[s.tier].utility

Beats(o, held) == o.krw > held.krw /\ o.utility > held.utility

\* possible_moves: the selections one upgrade away that the budget allows.
Moves ==
    LET flightMoves == {[sel EXCEPT !.flight = o] : o \in {f \in Elements(flights) : Beats(f, sel.flight)}}
        hotelMoves  == {[sel EXCEPT !.hotel = o] : o \in {h \in Elements(hotels) : Beats(h, sel.hotel)}}
        tierMoves   == {[sel EXCEPT !.tier = t] : t \in {sel.tier + 1} \cap DOMAIN ACTIVITY_TIERS}
    IN  {m \in flightMoves \cup hotelMoves \cup tierMoves : Total(m) <= trip.budget}

\* Where a move stands in the list max() goes through: flights come first.
Category(m) == IF m.flight # sel.flight THEN 1 ELSE IF m.hotel # sel.hotel THEN 2 ELSE 3

\* max() prefers m to n: more utility per won, then cheaper, then earlier.
Preferred(m, n) ==
    LET gain(x) == Utility(x) - Utility(sel)
        cost(x) == Total(x) - Total(sel)
        mine    == gain(m) * cost(n)
        theirs  == gain(n) * cost(m)
    IN  \/ mine > theirs
        \/ mine = theirs /\ cost(m) < cost(n)
        \/ mine = theirs /\ cost(m) = cost(n) /\ Category(m) <= Category(n)

-----------------------------------------------------------------------------
(* allocate_budget *)

\* Mutant: the verdict forgets the activities.
VerdictOnTickets(base) ==
    IF base.flight.krw + base.hotel.krw > trip.budget THEN "insufficient" ELSE "upgrading"

Verdict(base) == IF Total(base) > trip.budget THEN "insufficient" ELSE "upgrading"

Allocate(flightOptions, hotelOptions) ==
    LET fo == CheapestFirst(flightOptions)
        ho == CheapestFirst(hotelOptions)
    IN  /\ status = "waiting"
        /\ flights' = fo
        /\ hotels' = ho
        /\ \/ fo = <<>> /\ status' = "no_flights" /\ UNCHANGED sel
           \/ fo # <<>> /\ ho = <<>> /\ status' = "no_hotels" /\ UNCHANGED sel
           \/ /\ fo # <<>> /\ ho # <<>>
              /\ sel' = [flight |-> fo[1], hotel |-> ho[1], tier |-> 1]
              /\ status' = Verdict(sel')
        /\ UNCHANGED <<trip, steps>>

Upgrade ==
    /\ status = "upgrading"
    /\ steps < MAX_GREEDY_STEPS
    /\ \E m \in Moves :
          /\ \A n \in Moves : Preferred(m, n)
          /\ sel' = m
    /\ steps' = steps + 1
    /\ UNCHANGED <<trip, flights, hotels, status>>

Finish ==
    /\ status = "upgrading"
    /\ steps = MAX_GREEDY_STEPS \/ Moves = {}
    /\ status' = "fit"
    /\ UNCHANGED <<trip, flights, hotels, sel, steps>>

-----------------------------------------------------------------------------
(* Properties *)

Selected == status \in {"upgrading", "fit", "insufficient"}

\* What allocate_budget reports is true: a result that fits never costs more
\* than the budget, after any number of upgrades, and the budget is called
\* insufficient only when no flight and hotel on offer would fit it.
VerdictIsRight ==
    /\ status \in {"upgrading", "fit"} => Total(sel) <= trip.budget
    /\ status = "insufficient" =>
          \A f \in Elements(flights), h \in Elements(hotels) :
             f.krw + h.krw + ActivityCost(1) > trip.budget

Dominates(o, held) ==
    /\ o.krw <= held.krw /\ o.utility >= held.utility
    /\ o.krw < held.krw \/ o.utility > held.utility

\* However the upgrades of flight, hotel and activities alternate, the greedy
\* steps never end up with a choice that costs more and gives less than one
\* that was passed over.  An upgrade must cost more, so a better flight at the
\* lowest price is not taken when another was listed first; hotels arrive with
\* the best of a price first.
SelectionIsEfficient ==
    Selected =>
       /\ \A h \in Elements(hotels) : ~ Dominates(h, sel.hotel)
       /\ \A f \in Elements(flights) :
             Dominates(f, sel.flight) => f.krw = flights[1].krw /\ f # flights[1]

\* The same without the exception.  In no run: TLC refutes it when two flights
\* share the lowest price, see the README.
NoFlightIsBetter ==
    Selected => \A f \in Elements(flights) : ~ Dominates(f, sel.flight)
=============================================================================
