CONSTANTS
    c1 = c1  c2 = c2
    Clients <- OneClient
    MaxEvents = 4
    MaxTime = 3
SPECIFICATION FairSpec
CHECK_DEADLOCK FALSE
INVARIANTS TypeOK InOrderOnce LossOnlyWithinAMillisecond
PROPERTY StreamEnds
