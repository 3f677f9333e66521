SPECIFICATION FairSpec
CONSTANTS
    MaxVersion = 2
    Targets = {"orders", "users"}
    MaxQueries = 2
INVARIANTS
    TypeOK
    RowsOfTheLatestQuery
    NoSupersededPasswordShown
PROPERTIES
    ProgressEnds
    StepsAreShown
CHECK_DEADLOCK FALSE
