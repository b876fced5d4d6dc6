CONSTANTS
    w1 = w1  w2 = w2
    t1 = t1  t2 = t2
    k1 = k1  k2 = k2
    c1 = c1  c2 = c2
    None = None
    Requests <- TwoRequests
    Tasks <- TwoTasks
    MaxVersions = 2
    Terms <- TwoTerms
    Candidates <- OneCandidate
SPECIFICATION Spec
SYMMETRY Symmetry
CHECK_DEADLOCK FALSE
INVARIANTS TypeOK OnlyFailuresLeaveZombies
PROPERTIES VersionsArePreserved OnlyItsOwnEditReverts
