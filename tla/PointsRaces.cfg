SPECIFICATION FairSpec
CONSTANTS
    s1 = s1
    s2 = s2
    w1 = w1
    w2 = w2
    Sales = {s1, s2}
    Earn <- OneEach
    Deferred = {s2}
    Reopenable = {s2}
    Workers = {w1, w2}
    Amounts = {2}
    Mixes <- Mixed
    Openings <- Started
    PageSize = 1
    MaxBatches = 5
    MaxReversals = 2
INVARIANT BooksAgree
PROPERTY SoonestFirst
CHECK_DEADLOCK FALSE
PROPERTY EventuallyExpired
