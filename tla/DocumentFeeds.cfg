SPECIFICATION Spec
CONSTANTS
    q1 = q1
    o1 = o1
    o2 = o2
    d1 = d1
    i1 = i1
    s1 = s1
    r1 = r1
    x1 = x1
    x2 = x2
    x3 = x3
    Quotes = {q1}
    Orders = {o1, o2}
    Deliveries = {d1}
    Invoices = {i1}
    Settlements = {s1}
    Returns = {r1}
    Sales = {x1, x2, x3}
    Id <- Given
    ColdCap = 1
    Watched = {"quotation", "order", "delivery", "invoice", "settlement", "return", "sale"}
    Starts <- Beginnings
    MaxWrites = 2
INVARIANT ChangeResent
INVARIANT ViewsAgree
CHECK_DEADLOCK FALSE
