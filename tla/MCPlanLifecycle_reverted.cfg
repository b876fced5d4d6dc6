CONSTANTS
    w1 = w1  w2 = w2
    t1 = t1  t2 = t2
    k1 = k1  k2 = k2
    c1 = c1  c2 = c2
    None = None
    Requests <- TwoRequests
    Tasks <- OneTask
    MaxVersions = 2
    Terms <- OneTerms
    Candidates = {}
SPECIFICATION Spec
CHECK_DEADLOCK FALSE
PROPERTY ConfirmedIsFinal
