CONSTANTS
    Prime = 30721
    RangeSize = 16384
    EncodingBound = 32768
    WordSize = 65536
    Conns = {c1}
    c1 = c1
    AgentIds <- AnswerAgents
    Tokens <- AnswerTokens
    Requests <- AnswerRequests
    Rows <- AnswerRows
    Deployments <- AnswerDeployments
    Workers = 1
SPECIFICATION Spec
INVARIANTS
    TypeOK
    PostcardsHonest
    TierProofsExact
    InFlightAuthorised
    KeyRenameSurvived
PROPERTIES
    RefusedForCause
    AnswersFromStoredScore
