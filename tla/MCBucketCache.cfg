\* Two users, a bucket, every cache key in turn, two requests at a time.
SPECIFICATION Spec
CONSTANTS
    User = {u1, u2}
    Bucket = {b1}
    Stock = {b1}
    Name = {n1, n2}
    Token = {t1, t2}
    Worker = {w1, w2}
    None = None
    Miss = Miss
    StockToken = {None}
    Watch <- EachKey
    Strangers = FALSE
    MaxWrites = 3
    MaxFaults = 0
INVARIANTS TypeOK NoUnexplainedStaleness SubscribersWereAdmitted
SYMMETRY Symmetric
CHECK_DEADLOCK FALSE
