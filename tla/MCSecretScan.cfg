\* Four commits in any shape and two branches: enough for a merge, for a
\* branch of two commits, and for a tip that is forced away.
CONSTANTS
    Commits = {1, 2, 3, 4}
    Histories <- AllHistories
    SecretSets <- AtMostOne
    Branches = {"main", "b"}
    Default = "main"
    MaxEvents = 3
SPECIFICATION Spec
INVARIANTS
    TypeOK
    GreenMeansClean
    VerifiedOverSomething
\* The pushes are bounded.
CHECK_DEADLOCK FALSE
