CONSTANTS
    w1 = w1  w2 = w2
    t1 = t1  t2 = t2
    k1 = k1  k2 = k2
    c1 = c1  c2 = c2
    None = None
    Requests <- OneRequest
    Tasks <- TwoTasks
    MaxVersions = 3
    Terms <- OneTerms
    Candidates = {}
SPECIFICATION FairSpec
CHECK_DEADLOCK FALSE
PROPERTY EveryVersionFinishes
