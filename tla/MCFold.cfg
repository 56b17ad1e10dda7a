\* Four folds by two callers, so that both may be two folds past a root they
\* share.  Scores 5 and 8 share an element, 4 is below the threshold, and
\* the update saturates.  A zero weight makes it vacuous.
CONSTANTS
    Prime = 3
    MaxWord = 8
    Lanes = 6
    Callers = {c1, c2}
    GenesisRoots = {0}
    Commitments = {1, 2}
    Nullifiers = {0}
    Standards = {0}
    PrevStates = {0, 6}
    Outcomes = {4}
    Weights = {0, 1}
    Thresholds = {5}
    ClaimedScores = {5, 6}
    MaxFolds = 4
SPECIFICATION Spec
SYMMETRY Symmetry
INVARIANTS
    TypeOK
    RootNamesHistory
    RefusedBelowThresholdOnly
    BindingMeansContribution
    AcceptedRootBinds
    WitnessedNeverLower
    StepDownStated
\* The ledgers are bounded; callers stop there.
CHECK_DEADLOCK FALSE
