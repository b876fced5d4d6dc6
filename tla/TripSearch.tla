----------------------------- MODULE TripSearch -----------------------------
(***************************************************************************)
(* The first half of the planning task (agents/tasks.py,                   *)
(* run_full_pipeline): the agent loop of agents/orchestrator.py asks an    *)
(* LLM which tools to call, the flight and accommodation servers answer    *)
(* from SerpApi and LiteAPI, the code keeps the candidates it sees go by,  *)
(* and the budget engine chooses among whatever was kept.                  *)
(*                                                                         *)
(* The LLM chooses freely among the calls whose inputs it has, two at a    *)
(* time, within its prompt: no hotel search before rooms are allocated.    *)
(***************************************************************************)
EXTENDS Budget

CONSTANTS
    Parties,         \* the parties that may travel: adults, children
    Budgets,
    Cities,          \* the destinations are cities 1 .. Cities
    Nights,          \* of the trip
    FlightAnswers,   \* what SerpApi may answer: lists of flights
    HotelAnswers,    \* what LiteAPI may answer: lists of hotels
    MaxTurns         \* MAX_TURNS, 8 in the code

VARIABLES
    turn,            \* turns of the conversation in which tools were called
    calls,           \* tool calls of this turn not answered yet
    rooms,           \* the rooms and stays the LLM was told, <<>> before
    stays,
    found,           \* the hotels last found in each city
    collected        \* candidates kept for the budget engine

searchVars == <<turn, calls, rooms, stays, found, collected>>
vars == <<budgetVars, searchVars>>

TripSearchAssumption ==
    /\ Cities \in Nat \ {0} /\ Nights \in Nat \ {0} /\ MaxTurns \in Nat \ {0}
    /\ Parties \subseteq [adults : Nat \ {0}, children : Nat]
    /\ Budgets \subseteq Nat
    /\ FlightAnswers \subseteq Seq([price : Nat, direct : BOOLEAN, departs : Nat, arrives : Nat])
    /\ HotelAnswers \subseteq Seq([rates : SUBSET Nat, stars : Nat, matches : Nat])
ASSUME TripSearchAssumption

MAX_ADULTS_PER_ROOM == 2
MAX_CHILDREN_PER_ROOM == 2

Smaller(a, b) == IF a < b THEN a ELSE b
Larger(a, b) == IF a > b THEN a ELSE b
Ceil(a, b) == (a + b - 1) \div b
FirstOf(s, n) == [i \in 1 .. Smaller(n, Len(s)) |-> s[i]]

\* Sums(s)[i]: the first i numbers of s together.
Sums(s) == LET sum[i \in 0 .. Len(s)] == IF i = 0 THEN 0 ELSE sum[i - 1] + s[i] IN sum

-----------------------------------------------------------------------------
(* Rooms and stays *)

EvenSplit(total, n) ==
    [i \in 1 .. n |-> (total \div n) + (IF i <= total % n THEN 1 ELSE 0)]

\* Mutant: the children are forgotten.
RoomCountForAdults(adults, children) == Ceil(adults, MAX_ADULTS_PER_ROOM)

\* Rooms for all the adults and all the children, but none without an adult.
RoomCount(adults, children) ==
    LET wanted == Larger(Ceil(adults, MAX_ADULTS_PER_ROOM), Ceil(children, MAX_CHILDREN_PER_ROOM))
    IN  IF 0 \in Elements(EvenSplit(adults, wanted)) THEN Smaller(wanted, adults) ELSE wanted

\* The children, 1 .. children, are dealt out in order; <<>> when a room
\* would have too many (RoomAllocationError).
AllocateRooms(adults, children) ==
    LET n     == RoomCount(adults, children)
        grown == EvenSplit(adults, n)
        kids  == EvenSplit(children, n)
    IN  IF \E i \in 1 .. n : kids[i] > MAX_CHILDREN_PER_ROOM
        THEN <<>>
        ELSE [i \in 1 .. n |-> [adults   |-> grown[i],
                                children |-> Sums(kids)[i - 1] + 1 .. Sums(kids)[i]]]

\* Mutant: the next city from the day after.
SplitCityDatesApart(nights) ==
    IF \E i \in DOMAIN nights : nights[i] < 1
    THEN <<>>
    ELSE [i \in DOMAIN nights |-> [checkin  |-> Sums(nights)[i - 1] + i,
                                   checkout |-> Sums(nights)[i] + i]]

\* split_city_dates: each city from the check-out of the one before; <<>> on
\* a city without a night (CityDateSplitError).
SplitCityDates(nights) ==
    IF \E i \in DOMAIN nights : nights[i] < 1
    THEN <<>>
    ELSE [i \in DOMAIN nights |-> [checkin  |-> Sums(nights)[i - 1] + 1,
                                   checkout |-> Sums(nights)[i] + 1]]

-----------------------------------------------------------------------------
(* Candidates *)

FlightUtility(f) ==
    (IF f.direct THEN 20 ELSE 0)
      + (IF f.departs \in 6 .. 18 THEN 10 ELSE 0)
      + (IF f.arrives <= 18 THEN 16 ELSE 0)

\* get_flight_candidates: the five cheapest of those that have a price.
FlightCandidates(raw) ==
    LET parsed == [i \in DOMAIN raw |-> [krw |-> raw[i].price, utility |-> FlightUtility(raw[i])]]
    IN  FirstOf(CheapestFirst(parsed), 5)

LowestRate(h) == CHOOSE r \in h.rates : \A other \in h.rates : r <= other

\* search_hotel_candidates: the twenty cheapest of those that have a rate.
HotelCandidates(raw) ==
    LET rated == {i \in DOMAIN raw : raw[i].rates # {}}
    IN  FirstOf(SortedBy(raw, rated, [i \in rated |-> LowestRate(raw[i])]), 20)

HotelUtility(h) ==
    LET base == IF h.stars \in 1 .. 5 THEN 50 + 10 * h.stars ELSE 70
    IN  Smaller(100, base + Smaller(3 * h.matches, 10))

\* Mutant: the candidates stay cheapest first, as they were found.
ScoreCandidatesByPrice(hs) ==
    [i \in DOMAIN hs |-> [krw |-> LowestRate(hs[i]), utility |-> HotelUtility(hs[i])]]

\* accommodation_score_candidates: the best first.
ScoreCandidates(hs) ==
    LET scored == [i \in DOMAIN hs |-> [krw |-> LowestRate(hs[i]), utility |-> HotelUtility(hs[i])]]
    IN  SortedBy(scored, DOMAIN hs, [i \in DOMAIN hs |-> -HotelUtility(hs[i])])

-----------------------------------------------------------------------------
(* The agent loop *)

\* The splits of the trip's nights over its cities the LLM may think of.
NightSplits == {s \in [1 .. Cities -> 0 .. Nights] : Sums(s)[Cities] = Nights}

Available ==
    [tool : {"flights", "rooms"}]
      \cup [tool : {"split"}, nights : NightSplits]
      \cup {c \in [tool : {"search", "score"}, city : 1 .. Cities] :
              rooms # <<>> /\ (Cities > 1 => stays # <<>>)}

Batches == {<<c>> : c \in Available} \cup (Available \X Available)

Init ==
    /\ \E p \in Parties, b \in Budgets :
          trip = [budget |-> b, days |-> Nights + 1, travelers |-> p.adults + p.children,
                  adults |-> p.adults, children |-> p.children]
    /\ flights = <<>> /\ hotels = <<>>
    /\ sel = [flight |-> [krw |-> 0, utility |-> 0], hotel |-> [krw |-> 0, utility |-> 0], tier |-> 1]
    /\ steps = 0 /\ status = "waiting"
    /\ turn = 0 /\ calls = <<>>
    /\ rooms = <<>> /\ stays = <<>>
    /\ found = [c \in 1 .. Cities |-> <<>>]
    /\ collected = [flights |-> <<>>, hotels |-> <<>>]

\* Mutant: one turn more.
AskToolsOnceMore ==
    /\ status = "waiting" /\ calls = <<>> /\ turn <= MaxTurns
    /\ calls' \in Batches
    /\ turn' = turn + 1
    /\ UNCHANGED <<budgetVars, rooms, stays, found, collected>>

\* Mutant: the turns are not counted.
AskToolsUncounted ==
    /\ status = "waiting" /\ calls = <<>> /\ turn < MaxTurns
    /\ calls' \in Batches
    /\ UNCHANGED <<budgetVars, turn, rooms, stays, found, collected>>

\* The LLM answers with tool calls.
AskTools ==
    /\ status = "waiting" /\ calls = <<>> /\ turn < MaxTurns
    /\ calls' \in Batches
    /\ turn' = turn + 1
    /\ UNCHANGED <<budgetVars, rooms, stays, found, collected>>

Answering(tool) ==
    /\ status = "waiting" /\ calls # <<>> /\ Head(calls).tool = tool
    /\ calls' = Tail(calls)
    /\ UNCHANGED <<budgetVars, turn>>

\* A failed search answers {"error": ...}, which is collected as no candidates.
FlightsAnswer ==
    /\ Answering("flights")
    /\ \E raw \in FlightAnswers \cup {<<>>} : collected' = [collected EXCEPT !.flights = FlightCandidates(raw)]
    /\ UNCHANGED <<rooms, stays, found>>

RoomsAnswer ==
    /\ Answering("rooms")
    /\ rooms' = AllocateRooms(trip.adults, trip.children)
    /\ UNCHANGED <<stays, found, collected>>

SplitAnswer ==
    /\ Answering("split")
    /\ stays' = SplitCityDates(Head(calls).nights)
    /\ UNCHANGED <<rooms, found, collected>>

\* A search that fails or finds nothing leaves the LLM an empty list to score.
SearchAnswer ==
    /\ Answering("search")
    /\ \E raw \in HotelAnswers \cup {<<>>} : found' = [found EXCEPT ![Head(calls).city] = HotelCandidates(raw)]
    /\ UNCHANGED <<rooms, stays, collected>>

\* The hotels of the last city scored replace those of any other, with none if the
\* list was empty.
ScoreAnswer ==
    /\ Answering("score")
    /\ collected' = [collected EXCEPT !.hotels = ScoreCandidates(found[Head(calls).city])]
    /\ UNCHANGED <<rooms, stays, found>>

\* LiteAPI's hotel data failed: the answer is no JSON and nothing is collected.
ScoreFails ==
    /\ Answering("score")
    /\ UNCHANGED <<rooms, stays, found, collected>>

\* The LLM has enough, or the turns are used up: the budget is allocated.
StopSearching ==
    /\ calls = <<>>
    /\ Allocate(collected.flights, collected.hotels)
    /\ UNCHANGED searchVars

\* The LLM's service or a tool server is gone: the task raises.
Crash ==
    /\ status = "waiting"
    /\ status' = "failed"
    /\ UNCHANGED <<trip, flights, hotels, sel, steps, searchVars>>

Upgrading == (Upgrade \/ Finish) /\ UNCHANGED searchVars

Next ==
    \/ AskTools \/ FlightsAnswer \/ RoomsAnswer \/ SplitAnswer \/ SearchAnswer
    \/ ScoreAnswer \/ ScoreFails \/ StopSearching \/ Crash \/ Upgrading

Spec == Init /\ [][Next]_vars

\* One task on one worker: whatever it waits for answers, fails or times out.
FairSpec == Spec /\ WF_vars(Next)

-----------------------------------------------------------------------------
(* Properties *)

Rooms == [adults : Nat, children : SUBSET (1 .. trip.children)]

TypeOK ==
    /\ flights \in Seq(Options) /\ hotels \in Seq(Options)
    /\ sel \in [flight : Options, hotel : Options, tier : DOMAIN ACTIVITY_TIERS]
    /\ steps \in 0 .. MAX_GREEDY_STEPS
    /\ status \in {"waiting", "upgrading", "fit", "insufficient", "no_flights", "no_hotels", "failed"}
    /\ turn \in 0 .. MaxTurns
    /\ rooms \in Seq(Rooms)
    /\ collected \in [flights : Seq(Options), hotels : Seq(Options)]

\* The rooms sent with every hotel search hold the whole party: all adults,
\* each child in one room, with an adult, and no room overfull.  A party is
\* turned away only when it has more children than any rooms could hold.
RoomsHoldTheParty ==
    /\ rooms # <<>> =>
         /\ Sums([i \in DOMAIN rooms |-> rooms[i].adults])[Len(rooms)] = trip.adults
         /\ \A child \in 1 .. trip.children :
               Cardinality({i \in DOMAIN rooms : child \in rooms[i].children}) = 1
         /\ \A i \in DOMAIN rooms :
               /\ rooms[i].adults \in 1 .. MAX_ADULTS_PER_ROOM
               /\ Cardinality(rooms[i].children) <= MAX_CHILDREN_PER_ROOM
    /\ AllocateRooms(trip.adults, trip.children) = <<>> =>
         trip.children > MAX_CHILDREN_PER_ROOM * trip.adults

\* Every night of the trip is spent in exactly one of the cities.
EveryNightHasOneCity ==
    stays # <<>> =>
       \A night \in 1 .. Nights :
          Cardinality({c \in DOMAIN stays : night \in stays[c].checkin .. stays[c].checkout - 1}) = 1

\* A planning task comes to an end, however long the LLM goes on calling
\* tools and however the upgrades follow each other.
SearchEnds == <>(status \notin {"waiting", "upgrading"})
=============================================================================
