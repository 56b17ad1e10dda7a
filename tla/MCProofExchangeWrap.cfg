\* Numbers run past the prime, the encoding bound and the word size.
CONSTANTS
    Prime = 11
    RangeSize = 3
    EncodingBound = 14
    WordSize = 16
    MaxNumber = 19
    AgentIds <- MCAgentIds
SPECIFICATION Spec
INVARIANT CanonicalClaimsTrue
CHECK_DEADLOCK FALSE
