SPECIFICATION Spec
CONSTANTS
    o1 = o1
    o2 = o2
    a1 = a1
    a2 = a2
    i1 = i1
    i2 = i2
    s1 = s1
    s2 = s2
    w1 = w1
    w2 = w2
    Orders = {o1, o2}
    Standing = {o1}
    Advances = {a1, a2}
    Invoices = {i1, i2}
    Settlements = {s1, s2}
    Workers = {w1, w2}
    Totals = {6}
    Rates = {50}
    Amounts = {2, 3}
    Rebates = {0, 4}
    Minor = 2
    Floor = 2
    Mixes <- Mixed
    MaxRequests = 4
SYMMETRY Symmetry
INVARIANT InvoicesFollow
CHECK_DEADLOCK FALSE
PROPERTY AdvanceSound
PROPERTY PaidSound
