SPECIFICATION FairReplaySpec
CONSTANTS
    k1 = k1
    k2 = k2
    w1 = w1
    w2 = w2
    Keys = {k1, k2}
    Guarded = {k1}
    Servers = {w1, w2}
    Retention = 2
    Window = 1
    FreshFor = 1
    Regimes = {"calm", "hostile"}
    MaxApplied = 1
    MaxTime = 4
CONSTRAINT CheckoutAlone
INVARIANT AnswersHold
PROPERTY RecordsOnce
PROPERTY EventuallyAnswered
CHECK_DEADLOCK FALSE
