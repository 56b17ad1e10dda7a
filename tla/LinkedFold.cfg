\* Proofs of two witnesses and one other, in every combination.
CONSTANTS
    Prime = 3
    MaxWord = 6
    Lanes = 6
    NewOutcomes = {1}
    Blindings = {0}
    Secrets = {1}
    Scopes = {1, 2, 4}
    PrevFoldRoots = {0}
    UpdatedComponents = {0, 1}
    UserStandards = {0}
    Fillers = {0, 1}
    MaxJobs = 2
    MaxOther = 1
SPECIFICATION Spec
INVARIANTS
    VerifiedOpens
    NullifierFixesScope
    RootFixesWords
    JobsVerify
    ChainedFolds
\* The proofs made and the statements accepted are bounded.
CHECK_DEADLOCK FALSE
