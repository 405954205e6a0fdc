SPECIFICATION Spec
CONSTANTS
    Requests = {r1, r2, r3}
    AgentIds = {a1, a2}
    GroupIds = {g}
    UserIds = {u}
    Handlers = {"connect", "accept", "reject", "block", "unblock", "deleteAgent"}
    Parties <- MCParties
    Aborts = TRUE
    Null = Null
SYMMETRY Symmetry
INVARIANTS
    StatusIsAnAnswer
    RequestFollowsSender
    BlockHolds
PROPERTIES
    AnsweredIsNotAskedAgain
    UnblockIsEffective
