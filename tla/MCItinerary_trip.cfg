CONSTANTS
    None = None
    Nights <- TwoNights
    Airport <- TwoAirports
    Restaurants <- TwoRestaurants
    Sights <- TwoSights
    Regions <- MCRegions
    Pool <- MCPool
    Food <- MCFood
    Marked <- MCMarked
    Stay <- Minutes
    Leg <- MCLeg
    Landings <- MCLandings
    Takeoffs <- MCTakeoffs
    MaxVersions = 3
SPECIFICATION Spec
CHECK_DEADLOCK FALSE
INVARIANTS TypeOK TravelLeadsToTheNextStop UniqueVisitsDoNotOverlap KeptArrivalComesFirst
PROPERTY UniqueDaysAreCopied
