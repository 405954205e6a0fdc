SPECIFICATION Spec
CONSTANTS
    Requests = {r1, r2, r3}
    UserIds = {10}
    AgentIds = {20}
    StrangerIds = {}
    GroupIds = {40, 41}
    ConvIds = {5, 30, 31}
    GroupNames = {n1, n2}
    Handlers = {"send", "replay", "createGroup", "leave", "deleteAgent"}
    Aborts = TRUE
    QueryFaults = FALSE
    TicksPerSecond = 1
    MaxClock = 0
    Null = Null
SYMMETRY GroupSymmetry
INVARIANTS
    GroupLinkConsistent
    HalfMadeGroupExplained
    RosterIsListed
PROPERTIES
    DirectRosterNeverShrinks
    ImplementsMessageStore
