SPECIFICATION Spec
CONSTANTS
    r0 = r0
    r1 = r1
    r2 = r2
    u1 = u1
    u2 = u2
    p1 = p1
    t1 = t1
    t2 = t2
    t3 = t3
    l1 = l1
    l2 = l2
    d1 = d1
    d2 = d2
    w1 = w1
    w2 = w2
    Users = {u1, u2}
    Roles = {r0, r1, r2}
    Super = r0
    Standing = {r0, r1}
    First = {p1}
    Legacy = {d2}
    Perms = {p1}
    Outlets = {l1, l2}
    Outlet1 = l1
    PerOutlet = {p1}
    Tokens = {t1, t2, t3}
    Phones = {d1, d2}
    Workers = {w1, w2}
    PermTTL = 2
    PlanTTL = 2
    JwtLife = 2
    RefreshLife = 2
    Mixes <- Mixed
    MaxRequests = 3
SYMMETRY Symmetry
PROPERTY RemovalSilences
PROPERTY SignedOut
CHECK_DEADLOCK FALSE
INVARIANT GrantsSound
INVARIANT DevicesSound
