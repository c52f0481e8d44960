SPECIFICATION Spec
CONSTANTS
    d1 = d1
    d2 = d2
    i1 = i1
    i2 = i2
    r1 = r1
    r2 = r2
    w1 = w1
    w2 = w2
    Deliveries = {d1, d2}
    Invoices = {i1, i2}
    Returns = {r1, r2}
    Workers = {w1, w2}
    Ordered = 2
    Quantities = {1, 2}
    Opening = 0
    Mixes <- Mixed
    MaxRequests = 6
SYMMETRY Symmetry
INVARIANT StockExplained
INVARIANT LinksSound
PROPERTY TakenBackOnTransition
PROPERTY ReturnsFit
CHECK_DEADLOCK FALSE
