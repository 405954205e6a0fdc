SPECIFICATION Spec
CONSTANTS
    Requests = {r1, r2, r3, r4}
    e1 = e1
    s1 = s1
    Spellings = {e1, s1, e2}
    Normal <- LowerTrim
    Fold <- Citext
    Veterans = {v}
    Fleet = {a}
    Handlers = {"register", "resend", "verify", "login",
                "createAgent", "rotate", "delete", "authenticate"}
    TokenTTL = 1
    SessionTTL = 1
    Aborts = TRUE
    MaxClock = 1
    Null = Null
SYMMETRY RequestSymmetry
INVARIANTS
    OneAccountPerEmail
    VerifiedAddressWasMailed
    TokenIsSpentOnce
    TokenlessIsCutOff
    AgentOwnersAreVerified
    OldSecretStaysInvalid
PROPERTY
    VerifiedIsForever
