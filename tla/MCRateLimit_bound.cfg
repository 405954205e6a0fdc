SPECIFICATION Spec
CONSTANTS
    Messages = {m1, m2, m3}
    Senders = {s1, s2}
    Targets = {t1}
    Tags = {g1}
    Rate <- TagTightest
    BurstTicks = 1
    CleanupTicks = 1
    TokenUnits = 2
    Enabled = TRUE
    Sweeps = TRUE
    MaxClock = 3
    Null = Null
SYMMETRY Symmetry
INVARIANTS
    RateBound
    RefusalIsTemporary
