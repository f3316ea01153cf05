\* api/account.rs:226: the only login method cannot be removed.
SPECIFICATION Spec
CONSTANTS
    Account = {a1, a2}
    Session = {s1, s2}
    Discord = {d1}
    Telegram = {t1, t2}
    RootLogin = {t2}
    Worker = {w1, w2}
    None = None
    MaxFaults = 0
INVARIANT OnlyLoginMethodKept
CHECK_DEADLOCK FALSE
