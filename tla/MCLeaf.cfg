\* 5 < 8 < 16 stands for the prime, 2^31 and 2^32; a group of two among four
\* leaves.
CONSTANTS
    Prime = 5
    MaxWord = 15
    Lanes = 6
    MaxLong = 40
    Lines <- MCLines
    AgentIds <- MCAgentIds
    Depth = 2
    MaxRuns = 2
    MaxMembers = 2
SPECIFICATION Spec
INVARIANTS
    TypeOK
    DigestsExact
    LeavesAgree
    MembershipOpens
\* The runs and the group are bounded.
CHECK_DEADLOCK FALSE
