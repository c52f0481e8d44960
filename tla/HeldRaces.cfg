SPECIFICATION FairSpec
CONSTANTS
    s1 = s1
    s2 = s2
    k1 = k1
    k2 = k2
    k3 = k3
    w1 = w1
    w2 = w2
    Sales = {s1, s2}
    Packs = {k1, k2, k3}
    Usage = {k1, k2}
    Ending = {k2, k3}
    Quota = 2
    Units = {1, 2}
    Rounded = {s2}
    Reopenable = {s2}
    Workers = {w1, w2}
    Threshold = 1
    Mixes <- Mixed
    MaxIssued = 1
    MaxReversals = 2
INVARIANT PaidForOnce
INVARIANT QuotaExplained
INVARIANT MilestonesWithin
PROPERTY ShutStays
PROPERTY JobsDone
CHECK_DEADLOCK FALSE
