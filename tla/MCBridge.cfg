SPECIFICATION Spec
CONSTANTS
    Tokens <- MCTokens
    Absent = Absent
    Blank = Blank
    Refused = Refused
    Panic = Panic
    Word = Word
    PeerCodes <- MCPeerCodes
    SendTags <- MCSendTags
    SendContents = {"", "text", "query", "{other}"}
    SendMetas <- MCSendMetas
    MaxThread = 5
INVARIANTS
    TagsSurvive
    ErrorDetailsSurvive
    CorrelationSurvives
    EmittedIsAccepted
    PanicOnlyOnSent
    TypeOK
