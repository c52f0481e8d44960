SPECIFICATION Spec
CONSTANTS
    walkin = walkin
    counter = counter
    owed = owed
    laundry = laundry
    lite = lite
    w1 = w1
    w2 = w2
    Workers = {w1, w2}
    Sales = {walkin, counter, owed, laundry, lite}
    Total = 2
    Tenders = {0, 1, 2}
    PayLater = {owed, laundry}
    Laundry = {laundry}
    Deliverable = {counter, owed, laundry}
    Members = {walkin, counter, owed, laundry}
    Lite = {lite}
    MaxTendered = 3
    MaxReversals = 2
CONSTRAINT FewRung
SYMMETRY WorkerSymmetry
INVARIANT RestoredAtMostOnce
CHECK_DEADLOCK FALSE
