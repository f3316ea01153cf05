SPECIFICATION FairSpec
CONSTANTS
    d1 = d1
    h1 = h1
    Image = {i1, i2}
    DiscordUrl = {d1}
    StableUrl = {s1}
    Content = {h1}
    Link = {d1, s1}
    ContentOf <- MCContentOf
    Worker = {w1}
    Migrator = job
    StorageModes = {TRUE, FALSE}
    None = None
    BatchSize = 2
    MaxRequests = 2
    MaxFaults = 1
    MaxRestarts = 1
INVARIANTS
    NothingForgotten
PROPERTIES
    MigrationTerminates
    PendingIsSettled
CHECK_DEADLOCK FALSE
