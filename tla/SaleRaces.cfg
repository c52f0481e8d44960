SPECIFICATION RSpec
CONSTANTS
    walkin = walkin
    counter = counter
    owed = owed
    laundry = laundry
    lite = lite
    w1 = w1
    w2 = w2
    none = none
    k1 = k1
    k2 = k2
    r1 = r1
    r2 = r2
    e1 = e1
    Workers = {w1, w2}
    Sales = {walkin, counter, owed, laundry, lite}
    Total = 2
    Tenders = {0, 1, 2}
    PayLater = {owed, laundry}
    Laundry = {laundry}
    Deliverable = {counter, owed, laundry}
    Members = {walkin, counter, owed, laundry}
    Lite = {lite}
    MaxTendered = 3
    MaxReversals = 2
    Sessions = {k1, k2}
    NoSession = none
    LastDay = 2
    Ended = {1, 2}
    DayOf <- MCDayOf
    PayDay = 2
    Expenses = {e1}
    Periods <- MCPeriods
    Readers = {r1, r2}
    CacheCap = 1
    Looked = {owed, laundry}
    Mixes = {"sales", "sessions", "cache"}
    MaxStamp = 3
CONSTRAINT FewRung
CONSTRAINT FewAsked
SYMMETRY WorkerSymmetry
CHECK_DEADLOCK FALSE
INVARIANT RestoredOnce
INVARIANT CreditBackedByRows
INVARIANT MoneyFollows
INVARIANT ReportsTrue
