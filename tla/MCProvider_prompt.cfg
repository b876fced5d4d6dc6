CONSTANTS
    c1 = c1  c2 = c2
    h1 = h1  h2 = h2  h3 = h3
    n1 = n1  n2 = n2  n3 = n3
    a1 = a1
    None = None
    Callers <- TwoCallers
    Activities <- OneActivity
    Stock <- TwoSeats
    Holds <- TwoHolds
    Confs <- TwoConfs
    Quantities = {1, 2}
    TTL = 1
    MaxTime = 2
SPECIFICATION FairPromptSpec
INVARIANT NoOversell
PROPERTIES ImplementsStockLedger EveryCallReturns
