\* A Discord login, a Telegram login and a root one; two requests and a fault.
SPECIFICATION Spec
CONSTANTS
    Account = {a1, a2}
    Session = {s1, s2}
    Discord = {d1}
    Telegram = {t1, t2}
    RootLogin = {t2}
    Worker = {w1, w2}
    None = None
    MaxFaults = 1
INVARIANTS TypeOK LoginMethodKept OneLoginPerProvider NoOrphans
PROPERTIES RootLoginKept CredentialsSpec
SYMMETRY Symmetric
CHECK_DEADLOCK FALSE
