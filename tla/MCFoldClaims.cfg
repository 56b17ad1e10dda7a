\* Statements checked with and without the witness.
CONSTANTS
    Prime = 3
    MaxWord = 6
    Lanes = 6
    Callers = {c1, c2}
    GenesisRoots = {0}
    Commitments = {1, 2}
    Nullifiers = {0}
    Standards = {0}
    PrevStates = {0, 5}
    Outcomes = {4}
    Weights = {0, 1}
    Thresholds = {2}
    ClaimedScores = {2, 6}
    MaxFolds = 1
SPECIFICATION Spec
INVARIANT ClaimsHonest
\* The ledgers are bounded; callers stop there.
CHECK_DEADLOCK FALSE
