SPECIFICATION Spec
CONSTANTS
    Requests = {r1, r2, r3}
    UserIds = {10}
    AgentIds = {20}
    StrangerIds = {}
    GroupIds = {40}
    ConvIds = {5, 30, 31}
    GroupNames = {n1}
    Handlers = {"send", "replay", "info", "createGroup", "deleteAgent"}
    Aborts = TRUE
    QueryFaults = TRUE
    TicksPerSecond = 1
    MaxClock = 0
    Null = Null
SYMMETRY RequestSymmetry
INVARIANTS
    OneConversationPerPair
    AckedMessageIsFiled
    DirectMembership
    MissingParticipantExplained
    MisfiledOnlyIfDeleted
    TypeOK
