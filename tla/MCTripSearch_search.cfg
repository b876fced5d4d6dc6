CONSTANTS
    Parties <- SomeParties
    Budgets = {70, 100, 250}
    Cities = 2
    Nights = 2
    FlightAnswers <- SomeFlights
    HotelAnswers <- SomeHotels
    MaxTurns = 5
SPECIFICATION FairSpec
INVARIANTS TypeOK VerdictIsRight SelectionIsEfficient RoomsHoldTheParty EveryNightHasOneCity
PROPERTIES SearchEnds
CHECK_DEADLOCK FALSE
