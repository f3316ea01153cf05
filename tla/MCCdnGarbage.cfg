SPECIFICATION Spec
CONSTANTS
    d1 = d1
    h1 = h1
    Image = {i1, i2}
    DiscordUrl = {d1}
    StableUrl = {s1}
    Content = {h1}
    Link = {s1}
    ContentOf <- MCContentOf
    Worker = {w1, w2}
    Migrator = job
    StorageModes = {TRUE}
    None = None
    BatchSize = 2
    MaxRequests = 3
    MaxFaults = 0
    MaxRestarts = 0
PROPERTIES
    GcDeletesOnlyUnreferenced
CHECK_DEADLOCK FALSE
