SPECIFICATION TenantSpec
CONSTANTS
    owner = owner
    n1 = n1
    main = main
    k2 = k2
    w1 = w1
    w2 = w2
    Logins = {owner, n1}
    Owner = owner
    Outlets = {1, 2}
    Warehouses = {main, k2}
    Main = main
    Seats <- Included1
    Price <- Prices
    Customs = {1}
    Fee <- Fees
    Offers <- Discounts
    Starts <- Tenants
    Month = 2
    Grace = 1
    Admins = {w1, w2}
    Duties <- Mixed
    MaxMonths = 1
    Horizon = 3
    MaxRequests = 3
SYMMETRY Symmetry
INVARIANT BothAgree
INVARIANT ChargedRight
PROPERTY MonthsGranted
INVARIANT TrialEndsWithPro
INVARIANT NothingLost
CHECK_DEADLOCK FALSE
