\* Numbers run past the prime, the encoding bound and the word size.
CONSTANTS
    Prime = 11
    RangeSize = 3
    EncodingBound = 14
    WordSize = 16
    MaxNumber = 19
    AgentIds <- MCAgentIds
SPECIFICATION Spec
INVARIANTS
    TypeOK
    AcceptedClaimsTrue
    AcceptedClaimsBound
    HonestProofsExact
\* The exchange ends with the check, or with a failed proof.
CHECK_DEADLOCK FALSE
