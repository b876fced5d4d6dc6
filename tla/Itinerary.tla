----------------------------- MODULE Itinerary -----------------------------
(***************************************************************************)
(* The day-by-day itinerary of a trip through its versions: built from     *)
(* search results and the times of the flight (agents/itinerary.py), then  *)
(* edited, re-timed for another flight and rolled back (trips/services.py).*)
(*                                                                         *)
(* Times are minutes of the day.  A place is its name; its kind, the time  *)
(* spent there and the travel time to another place are constants.  A day  *)
(* is the sequence of its rows, ordered by visit_order; a row of the       *)
(* pipeline carries the mark "airport" if the place has that type.         *)
(***************************************************************************)
EXTENDS Integers, SequencesExt, FiniteSetsExt

CONSTANTS
    Nights,      \* Nights[c]: nights in the c-th city of the trip
    Airport,     \* Airport[c]: the first result of the airport search for that
                 \* city, which is made for the first and the last one
    Restaurants, \* Restaurants[c]: what the restaurant queries find, each
                 \* place once, best first
    Sights,      \* Sights[c]: the same of the theme and sight queries
    Regions,     \* results that are a city or a region, not a place to visit
    Pool,        \* places the search for an edit request finds
    Food,        \* the places of kind "food"
    Marked,      \* the places of the type "airport", whichever search finds them
    Stay,        \* Stay[p]: estimate_duration_min
    Leg,         \* Leg[<<p, q>>]: minutes from p to q, as get_travel_time finds
    Landings,    \* clock times at which an outward flight may land
    Takeoffs,    \* clock times at which a return flight may leave
    MaxVersions, \* bound: versions of the plan
    None         \* Python's None; of a flight also a time on another date

Cities == DOMAIN Nights
Places == DOMAIN Stay

ASSUME ItineraryAssumption ==
    /\ Nights \in Seq(Nat \ {0}) /\ Nights # <<>>
    /\ Landings \subseteq 0 .. 24 * 60 - 1
    /\ Takeoffs \subseteq 0 .. 24 * 60 - 1
    /\ None \notin Nat
    /\ Stay \in [Places -> Nat]
    /\ Leg \in [Places \X Places -> Nat]
    /\ Airport \in [Cities -> Places]
    /\ \A c \in Cities : Restaurants[c] \in Seq(Regions \cup Places)
    /\ \A c \in Cities : Sights[c] \in Seq(Regions \cup Places)
    /\ Pool \subseteq Places

VARIABLES
    versions,  \* the plans of the request: their rows and their flight's times
    intact,    \* history: intact[v] iff v and all it comes from are Orderly
    asked      \* history: what the editor answered, if the last step is an edit

vars == <<versions, intact, asked>>

-----------------------------------------------------------------------------
(* One day: _to_items, _day_window, _schedule_day *)

DayStart == 9 * 60
DayEnd == 21 * 60
ArrivalBuffer == 60
DepartureBuffer == 120
MealAnchors == <<12 * 60, 18 * 60>>
DinnerStay == 90

\* Mutant: a day that runs past midnight.
ClockTimeUnwrapped(minutes) == minutes

ClockTime(minutes) == minutes % (24 * 60)

DayWindow(landing, takeoff) ==
    [start |-> IF landing = None THEN DayStart
               ELSE Max({DayStart, landing + ArrivalBuffer}),
     end |-> IF takeoff = None THEN DayEnd
             ELSE Min({DayEnd, takeoff - DepartureBuffer})]

IsAirport(item) == item.airport
Travel(item) == IF item.next = None THEN 0 ELSE item.next

ToItems(stops) ==
    [i \in DOMAIN stops |->
        [name |-> stops[i], airport |-> stops[i] \in Marked,
         at |-> None, stay |-> Stay[stops[i]],
         next |-> IF i = Len(stops) THEN None ELSE Leg[<<stops[i], stops[i + 1]>>]]]

(* The loop over the visits: day holds the clock, the meals so far, the rows. *)

IsMeal(day, item) == item.name \in Food /\ day.meals < Len(MealAnchors)

Arrival(day, item) ==
    IF IsMeal(day, item) THEN Max({day.clock, MealAnchors[day.meals + 1]})
    ELSE day.clock

TimeSpent(day, item) ==
    IF IsMeal(day, item) /\ day.meals = 1 THEN Max({item.stay, DinnerStay})
    ELSE item.stay

MealsAfter(day, item) == IF IsMeal(day, item) THEN day.meals + 1 ELSE day.meals

\* Mutant: a skipped visit leaves the travel time of the one before.
SkipKeepingTravel(day, item) ==
    [day EXCEPT !.clock = Arrival(day, item), !.meals = MealsAfter(day, item)]

Skip(day, item) ==
    [clock |-> Arrival(day, item),
     meals |-> MealsAfter(day, item),
     kept |-> [i \in DOMAIN day.kept |->
                  IF i = Len(day.kept) THEN [day.kept[i] EXCEPT !.next = None]
                  ELSE day.kept[i]]]

\* Mutant: the travel time is forgotten.
KeepWithoutTravel(day, item) ==
    [clock |-> Arrival(day, item) + TimeSpent(day, item),
     meals |-> MealsAfter(day, item),
     kept |-> Append(day.kept, [item EXCEPT !.at = ClockTime(Arrival(day, item)),
                                            !.stay = TimeSpent(day, item)])]

Keep(day, item) ==
    [clock |-> Arrival(day, item) + TimeSpent(day, item) + Travel(item),
     meals |-> MealsAfter(day, item),
     kept |-> Append(day.kept, [item EXCEPT !.at = ClockTime(Arrival(day, item)),
                                            !.stay = TimeSpent(day, item)])]

Visit(day, item, end) ==
    IF Arrival(day, item) + TimeSpent(day, item) > end THEN Skip(day, item)
    ELSE Keep(day, item)

\* The day after each of the visits.
DayAfter(opening, visits, end) ==
    LET day[i \in 0 .. Len(visits)] ==
            IF i = 0 THEN opening ELSE Visit(day[i - 1], visits[i], end)
    IN  day

ScheduleDay(items, window) ==
    IF items = <<>> THEN <<>>
    ELSE LET front == IsAirport(Head(items))
             back == IsAirport(Last(items)) /\ ~(front /\ Len(items) = 1)
             visits == SubSeq(items, IF front THEN 2 ELSE 1,
                                     IF back THEN Len(items) - 1 ELSE Len(items))
             opening ==
                [clock |-> window.start + (IF front THEN Travel(Head(items)) ELSE 0),
                 meals |-> 0,
                 kept |-> IF front
                          THEN <<[Head(items) EXCEPT !.at = ClockTime(window.start)]>>
                          ELSE <<>>]
             day == DayAfter(opening, visits, window.end)[Len(visits)]
             closing == ClockTime(Max({day.clock, window.end}))
         IN  IF back THEN Append(day.kept, [Last(items) EXCEPT !.at = closing])
             ELSE day.kept

-----------------------------------------------------------------------------
(* The whole trip: _build_city_days, build_day_plan *)

\* The elements of s that are in S, as they come.
Only(s, S) ==
    LET kept[i \in 0 .. Len(s)] ==
            IF i = 0 THEN <<>>
            ELSE IF s[i] \in S THEN Append(kept[i - 1], s[i]) ELSE kept[i - 1]
    IN  kept[Len(s)]

\* The days of the trip before those of the c-th city.
DaysBefore(c) ==
    LET nights[i \in 0 .. Len(Nights)] == IF i = 0 THEN 0 ELSE nights[i - 1] + Nights[i]
    IN  nights[c - 1]

CityDays(c) == IF c = Len(Nights) THEN Nights[c] + 1 ELSE Nights[c]
Days == 1 .. DaysBefore(Len(Nights) + 1) + 1
CityOf(d) == Max({c \in Cities : DaysBefore(c) < d})

UpTo(s, first, last) == SubSeq(s, first, Min({last, Len(s)}))

\* Contiguous parts of the route, the remainder to the first days.
SplitIntoDays(ordered, n) ==
    LET base == Len(ordered) \div n
        extra == Len(ordered) % n
        taken(i) == base * i + Min({i, extra})
    IN  [i \in 1 .. n |-> SubSeq(ordered, taken(i - 1) + 1, taken(i))]

CollectPlaces(results, seen) == Only(results, Places \ (seen \cup Regions))

PickTop(places, n) == UpTo(places, 1, n)

\* Nearest neighbour: some order that starts with the best place.
RoutesThrough(places) ==
    {r \in SetToSeqs(ToSet(places)) : places = <<>> \/ r[1] = places[1]}

TopFoods(c) == PickTop(CollectPlaces(Restaurants[c], {}), 2 * CityDays(c))
TopSights(c) ==
    PickTop(CollectPlaces(Sights[c], ToSet(CollectPlaces(Restaurants[c], {}))),
            2 * CityDays(c))

\* The stops of a city's i-th day: lunch between the sights, dinner last.
CityStops(c, route, i) ==
    LET sights == SplitIntoDays(route, CityDays(c))[i]
        meals == UpTo(TopFoods(c), 2 * i - 1, 2 * i)
        mid == (Len(sights) + 1) \div 2
    IN  SubSeq(sights, 1, mid) \o UpTo(meals, 1, 1)
          \o SubSeq(sights, mid + 1, Len(sights)) \o UpTo(meals, 2, 2)

Stops(d, route, found) ==
    LET c == CityOf(d)
    IN  (IF d = 1 /\ 1 \in found THEN <<Airport[1]>> ELSE <<>>)
          \o CityStops(c, route[c], d - DaysBefore(c))
          \o (IF d = Max(Days) /\ c \in found THEN <<Airport[c]>> ELSE <<>>)

BuildDayPlan(route, found, flight) ==
    [d \in Days |->
        ScheduleDay(ToItems(Stops(d, route, found)),
                    DayWindow(IF d = 1 THEN flight.landing ELSE None,
                              IF d = Max(Days) THEN flight.takeoff ELSE None))]

-----------------------------------------------------------------------------
Rows(days) == UNION {{d} \X DOMAIN days[d] : d \in DOMAIN days}
Names(day) == [i \in DOMAIN day |-> day[i].name]
AllNames(days) == UNION {ToSet(Names(days[d])) : d \in DOMAIN days}

\* All days are there, no name is on two rows, and an airport is only where the
\* trip starts and ends, for no stay.  Not so: a trip to one city whose airport is
\* found, which is on two rows, or one that meets a place in two cities.
Orderly(days) ==
    /\ DOMAIN days = Days
    /\ Cardinality(AllNames(days)) = Cardinality(Rows(days))
    /\ \A x \in Rows(days) : IsAirport(days[x[1]][x[2]]) =>
          /\ x \in {<<1, 1>>, <<Max(Days), Len(days[Max(Days)])>>}
          /\ days[x[1]][x[2]].stay = 0

Flights == [landing : Landings \cup {None}, takeoff : Takeoffs \cup {None}]

Latest == versions[Len(versions)]

Save(days, flight, whole, answer) ==
    /\ versions' = Append(versions, [days |-> days, flight |-> flight])
    /\ intact' = Append(intact, whole /\ Orderly(days))
    /\ asked' = answer

Init == versions = <<>> /\ intact = <<>> /\ asked = <<>>

\* The pipeline's result; found: the cities whose airport the search finds.
SavePipelineResult ==
    /\ versions = <<>>
    /\ \E flight \in Flights, found \in SUBSET {1, Len(Nights)} :
       \E route \in [Cities -> UNION {RoutesThrough(TopSights(c)) : c \in Cities}] :
          /\ \A c \in Cities : route[c] \in RoutesThrough(TopSights(c))
          /\ Save(BuildDayPlan(route, found, flight), flight, TRUE, <<>>)

-----------------------------------------------------------------------------
(* Edits of the itinerary: edit_day_plan, create_edited_version *)

Unknown == "no such place"   \* a name the editor makes up

Candidates(days) == Pool \ AllNames(days)

\* What the editor may answer: the days as they are, with a place taken out
\* and a place, the same or another, put in; or a day left out.
Answers(days) ==
    LET plain == [d \in DOMAIN days |-> Names(days[d])]
        without ==
            UNION {{[plain EXCEPT ![d] = RemoveAt(@, i)] :
                       i \in DOMAIN plain[d]} : d \in DOMAIN plain}
        names == AllNames(days) \cup Candidates(days) \cup {Unknown}
        with(base) ==
            UNION {UNION {{[base EXCEPT ![d] = InsertAt(@, i, p)] :
                              i \in 1 .. Len(base[d]) + 1} : p \in names} : d \in DOMAIN base}
    IN  without \cup (UNION {with(base) : base \in without \cup {plain}})
          \cup {[d \in DOMAIN plain \ {e} |-> plain[d]] : e \in DOMAIN plain}

\* Only the pipeline's rows carry the mark.
CandidateItem(name) ==
    [name |-> name, airport |-> FALSE, at |-> None, stay |-> Stay[name], next |-> None]

\* Mutant: a candidate takes the place of the row that has its name.
ItemByNamePoolFirst(days, name) ==
    IF name \in Pool THEN CandidateItem(name)
    ELSE LET x == CHOOSE x \in Rows(days) : days[x[1]][x[2]].name = name
         IN  days[x[1]][x[2]]

\* item_by_name: the last row of that name, a candidate if there is none.
ItemByName(days, name) ==
    LET at == {x \in Rows(days) : days[x[1]][x[2]].name = name}
        last == CHOOSE x \in at : \A y \in at : \/ y[1] < x[1]
                                                \/ y[1] = x[1] /\ y[2] <= x[2]
    IN  IF at = {} THEN CandidateItem(name)
        ELSE days[last[1]][last[2]]

\* Mutant: the airports are not looked at.
DayEditWindowDefault(day) == [start |-> DayStart, end |-> DayEnd]

\* _day_edit_window: the times the airports of the day were given.
DayEditWindow(day) ==
    [start |-> IF day # <<>> /\ IsAirport(Head(day)) THEN Head(day).at ELSE DayStart,
     end |-> IF day # <<>> /\ IsAirport(Last(day)) THEN Last(day).at ELSE DayEnd]

Reassembled(rows) ==
    [i \in DOMAIN rows |-> [rows[i] EXCEPT !.at = None, !.next = None]]

EditedDay(days, d, names) ==
    LET known == Only(names, AllNames(days) \cup Pool)
        rows == [i \in DOMAIN known |-> ItemByName(days, known[i])]
    IN  IF known = Names(days[d]) THEN rows
        ELSE ScheduleDay(Reassembled(rows), DayEditWindow(days[d]))

CreateEditedVersion ==
    /\ Len(versions) \in 1 .. MaxVersions - 1
    /\ \E answer \in Answers(Latest.days) :
          Save([d \in DOMAIN answer |-> EditedDay(Latest.days, d, answer[d])],
               Latest.flight, intact[Len(intact)], answer)

-----------------------------------------------------------------------------
(* Another flight, and rolling back *)

\* The first and the last day are timed again when their flight's time changed.
RetimedDay(days, d, old, new) ==
    LET first == /\ d = Min(DOMAIN days)
                 /\ new.landing # None /\ new.landing # old.landing
        last == /\ d = Max(DOMAIN days)
                /\ new.takeoff # None /\ new.takeoff # old.takeoff
    IN  IF first \/ last
        THEN ScheduleDay(days[d], DayWindow(IF first THEN new.landing ELSE None,
                                            IF last THEN new.takeoff ELSE None))
        ELSE days[d]

SaveBudgetEditedVersion ==
    /\ Len(versions) \in 1 .. MaxVersions - 1
    /\ \E flight \in Flights :
          Save([d \in DOMAIN Latest.days |->
                   RetimedDay(Latest.days, d, Latest.flight, flight)],
               flight, intact[Len(intact)], <<>>)

CopyPlanVersion ==
    /\ Len(versions) \in 2 .. MaxVersions - 1
    /\ \E v \in 1 .. Len(versions) - 1 :
          Save(versions[v].days, versions[v].flight, intact[v], <<>>)

Next ==
    \/ SavePipelineResult
    \/ CreateEditedVersion
    \/ SaveBudgetEditedVersion
    \/ CopyPlanVersion

Spec == Init /\ [][Next]_vars
-----------------------------------------------------------------------------
(* Correctness *)

Item == [name : DOMAIN Stay, airport : BOOLEAN, at : 0 .. 24 * 60 - 1, stay : Nat,
         next : Nat \cup {None}]

\* Every stored row has a place that was found and a time of the day, whatever
\* the flight: visits past midnight are stored modulo a day.
TypeOK ==
    /\ DOMAIN intact = DOMAIN versions
    /\ \A v \in DOMAIN versions :
          /\ intact[v] \in BOOLEAN
          /\ versions[v].flight \in Flights
          /\ DOMAIN versions[v].days \subseteq Days
          /\ \A d \in DOMAIN versions[v].days : versions[v].days[d] \in Seq(Item)

\* The rows next to each other in an intact plan's days: <<row, next row>>.
Neighbours(days) ==
    {<<days[x[1]][x[2]], days[x[1]][x[2] + 1]>> :
        x \in {y \in Rows(days) : y[2] < Len(days[y[1]])}}

\* The precondition of the properties below: the latest version, and every one it
\* comes from, is Orderly.  It is not so of a trip to one city whose airport is found.
Checked == versions # <<>> /\ intact[Len(intact)]

\* A travel time is shown only for the place that really comes next: visits
\* that did not fit, edits and new flights never leave the time to a place
\* that is gone (_schedule_day, create_edited_version).  Asked of Orderly plans.
TravelLeadsToTheNextStop ==
    Checked =>
        /\ \A n \in Neighbours(Latest.days) :
              n[1].next # None => n[1].next = Leg[<<n[1].name, n[2].name>>]
        /\ \A d \in DOMAIN Latest.days :
              Latest.days[d] # <<>> => Last(Latest.days[d]).next = None

Apart(days) ==
    \A n \in Neighbours(days) : n[1].at + n[1].stay + Travel(n[1]) <= n[2].at

\* Nobody has to be at two places at once: a row's stay and travel are over
\* when the next one starts (_schedule_day, create_edited_version).  In no run: TLC
\* refutes it for a trip to one city, whose airport is on two rows; see the README.
VisitsDoNotOverlap == versions # <<>> => Apart(Latest.days)

\* The same for plans in which no name is on two rows and no visit is an airport,
\* after any edits and changes of flight that leave them so.  Of trips whose legs
\* take less than three hours: at the end of the day a longer one leads past
\* midnight, where the time that is stored wraps.
UniqueVisitsDoNotOverlap == Checked => Apart(Latest.days)

\* No row of the first day is before the landing and the time to get into town.
\* A landing in the last hour of the day is left out: there the stored time wraps
\* to after midnight.
InTownFirst(days, flight) ==
    flight.landing # None /\ flight.landing + ArrivalBuffer < 24 * 60 =>
        \A i \in DOMAIN days[1] : days[1][i].at >= flight.landing + ArrivalBuffer

\* Nothing is planned before the plane has landed and the traveller is in town,
\* also after edits, which know the landing only from the time stored for the
\* airport (_day_edit_window).  In no run: TLC refutes it where the row of that
\* airport is looked up by a name it shares, or is not there; see the README.
NothingBeforeLanding ==
    versions # <<>> /\ 1 \in DOMAIN Latest.days => InTownFirst(Latest.days, Latest.flight)

ArrivesAtAirport(days) ==
    1 \in DOMAIN days /\ days[1] # <<>> /\ IsAirport(Head(days[1]))

\* The same for plans in which no name is on two rows, as long as the first day of
\* every version starts with the row of an airport, whose time an edit then reads.
KeptArrivalComesFirst ==
    Checked /\ (\A v \in DOMAIN versions : ArrivesAtAirport(versions[v].days)) =>
        InTownFirst(Latest.days, Latest.flight)

\* The airport of departure is reached in time for the flight, later than
\* planned by no more than the leg that leads to it ("slightly late" on a full
\* day, _day_edit_window).  In no run: TLC refutes it, see the README.
DepartureSlipsByOneLeg ==
    versions # <<>> /\ Latest.flight.takeoff # None /\ Max(Days) \in DOMAIN Latest.days =>
        \A i \in DOMAIN Latest.days[Max(Days)] :
            IsAirport(Latest.days[Max(Days)][i]) =>
                Latest.days[Max(Days)][i].at
                    <= Max({DayStart, Latest.flight.takeoff - DepartureBuffer})
                         + Max({Leg[<<p, Airport[Len(Nights)]>>] : p \in DOMAIN Stay})

\* A day an edit leaves as it is keeps its rows, times and travel included
\* (create_edited_version: "copies the whole row").  In no run: TLC refutes it
\* for a trip to one city, whose two airport rows have one name; see the README.
UnchangedDaysAreCopied ==
    [][\A d \in DOMAIN asked' :
          asked'[d] = Names(Latest.days[d]) => Latest'.days[d] = Latest.days[d]]_vars

\* The same for plans in which no name is on two rows.
UniqueDaysAreCopied ==
    [][Checked => \A d \in DOMAIN asked' :
          asked'[d] = Names(Latest.days[d]) => Latest'.days[d] = Latest.days[d]]_vars
=============================================================================
