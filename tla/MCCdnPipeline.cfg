SPECIFICATION Spec
CONSTANTS
    d1 = d1
    h1 = h1
    Image = {i1, i2}
    DiscordUrl = {d1}
    StableUrl = {s1}
    Content = {h1, h2}
    Link = {d1, h1}
    ContentOf <- MCContentOf
    Worker = {w1, w2}
    Migrator = job
    StorageModes = {TRUE}
    None = None
    BatchSize = 2
    MaxRequests = 3
    MaxFaults = 1
    MaxRestarts = 0
SYMMETRY MCSymmetry
INVARIANTS
    TypeOK
    RehostedObjectKept
    ServedLinkIsStable
    FailedNotRetried
    NoLostObjects
CHECK_DEADLOCK FALSE
