SPECIFICATION Spec
CONSTANTS
    Requests = {r1, r2}
    UserIds = {10}
    AgentIds = {20}
    StrangerIds = {}
    GroupIds = {}
    ConvIds = {30, 31}
    GroupNames = {}
    Handlers = {"send"}
    Aborts = FALSE
    QueryFaults = FALSE
    TicksPerSecond = 2
    MaxClock = 3
    Null = Null
INVARIANT
    ReceivedIsUnread
