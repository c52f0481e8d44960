SPECIFICATION Spec
CONSTANTS
    o1 = o1
    h1 = h1
    h2 = h2
    s1 = s1
    s2 = s2
    w1 = w1
    w2 = w2
    Outlets = {o1}
    Main = o1
    Warehouses <- OneHouse
    Opening = 1
    Sales = {s1, s2}
    Workers = {w1, w2}
    Quantities = {1, 2}
    Setups <- Mixed
    MaxReceipts = 4
    MaxVersion = 2
SYMMETRY Symmetric
INVARIANT StockExplained
INVARIANT ReceiptsWithinBalance
PROPERTY LayersInOrder
CHECK_DEADLOCK FALSE
