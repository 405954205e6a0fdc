SPECIFICATION Spec
CONSTANTS
    Procs = {p1, p2, p3}
    Fleet = {a1, a2}
    OldToken = OldToken
    Environments <- MCEnvironments
    Missing = Missing
    Blank = Blank
    Null = Null
SYMMETRY CliSymmetry
INVARIANTS
    PairConsistent
    LockOutExplained
    LogoutHolds
