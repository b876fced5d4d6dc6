CONSTANTS
    w1 = w1  w2 = w2
    p1 = p1
    o1 = o1  o2 = o2
    r1 = r1  r2 = r2
    None = None
    Requests <- TwoRequests
    Plans <- OnePlan
    Orders <- TwoOrders
    Runs <- TwoRuns
SPECIFICATION Spec
INVARIANT OnePaymentPerItem
