SPECIFICATION FairSpec
CONSTANTS
    Requests = {r1, r2}
    UserIds = {10}
    AgentIds = {20}
    StrangerIds = {}
    GroupIds = {}
    ConvIds = {30, 31}
    GroupNames = {}
    Handlers = {"send", "replay", "info", "deleteAgent"}
    Aborts = FALSE
    QueryFaults = TRUE
    TicksPerSecond = 2
    MaxClock = 3
    Null = Null
INVARIANTS
    PreviewIsOwnMessage
    RefusalExplained
PROPERTIES
    DirectRosterBecomesComplete
    EveryRequestAnswered
