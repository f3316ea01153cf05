\* Three days, an account with a bucket, an image in it and a send, a failed statement.
SPECIFICATION Spec
CONSTANTS
    u1 = u1
    b1 = b1
    i1 = i1
    s1 = s1
    LastDay = 2
    Item = {u1, b1, i1, s1}
    TableOf <- MCTableOf
    Above <- MCAbove
    Metric = {m1}
    None = None
    MaxFiles = 0
    MaxFaults = 1
    MaxStops = 0
INVARIANTS TypeOK FinalizedCountsAreTrue DailyWithinTotal NoRowLeftOpen
PROPERTIES LedgerSpec
CHECK_DEADLOCK FALSE
