\* Four days, an account, the server stops once.
SPECIFICATION FairSpec
CONSTANTS
    u1 = u1
    i1 = i1
    s1 = s1
    b1 = b1
    LastDay = 3
    Item = {u1}
    TableOf <- MCTableOf
    Above <- MCAbove
    Metric = {m1}
    None = None
    MaxFiles = 1
    MaxFaults = 0
    MaxStops = 1
PROPERTIES MetricsNeverLost EveryRowCloses
CHECK_DEADLOCK FALSE
