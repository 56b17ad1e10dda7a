CONSTANTS
    Prime = 30721
    RangeSize = 16384
    EncodingBound = 32768
    WordSize = 65536
    Conns = {c1, c2}
    c1 = c1
    c2 = c2
    AgentIds <- RaceAgents
    Tokens <- RaceTokens
    Requests <- RaceRequests
    Rows <- RaceRows
    Deployments <- RaceDeployments
    Workers = 1
SPECIFICATION Spec
PROPERTIES
    RequestsSettle
    AnswersFromStoredScore
