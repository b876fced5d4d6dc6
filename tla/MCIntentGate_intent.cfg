CONSTANTS
    w1 = w1  w2 = w2
    p1 = p1  p2 = p2
    r1 = r1  r2 = r2
    None = None
    Profile = ICN
    Requests <- TwoRequests
    Ids <- TwoIds
    RunIds <- TwoRuns
    Utterances <- Sayings
    LastDay = 1
    MaxMissed = 3
SPECIFICATION Spec
SYMMETRY Symmetry
CHECK_DEADLOCK FALSE
INVARIANTS TypeOK AsksForWhatIsMissing InventionIsFlaggedUnlessNumbersTouch
PROPERTY ImplementsConfirmedRuns
