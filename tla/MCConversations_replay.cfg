SPECIFICATION Spec
CONSTANTS
    Requests = {r1, r2}
    UserIds = {10}
    AgentIds = {20}
    StrangerIds = {}
    GroupIds = {}
    ConvIds = {5, 30, 31}
    GroupNames = {}
    Handlers = {"send", "replay"}
    Aborts = FALSE
    QueryFaults = FALSE
    TicksPerSecond = 1
    MaxClock = 0
    Null = Null
INVARIANT
    ReplayReachesOriginalConversation
