\* Strangers ask too, and a fault strikes: the caches recover by themselves.
SPECIFICATION FairSpec
CONSTANTS
    User = {u1, u2}
    Bucket = {b1, b2}
    Stock = {b1}
    Name = {n1}
    Token = {t1, t2}
    Worker = {w1, w2}
    None = None
    Miss = Miss
    StockToken = {None, t1}
    Watch <- EachKey
    Strangers = TRUE
    MaxWrites = 1
    MaxFaults = 1
PROPERTY Converges
CHECK_DEADLOCK FALSE
