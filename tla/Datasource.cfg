SPECIFICATION Spec
CONSTANTS
    p = p
    q = q
    None = None
    Rows <- MCRows
    InitialRows <- MCInitialRows
    InitialColumns <- MCInitialColumns
    AlteredColumns <- MCAlteredColumns
    ColumnOf <- MCColumnOf
    Projections <- MCProjections
    Parallelism = {2}
    RowLimits <- MCRowLimits
    TabletSize = 1
    Externals = {FALSE, TRUE}
    SingleTask = TRUE
    MaxSources = 2
    MaxChain = 3
INVARIANTS
    ReadIsTheQuery
    BlocksAreTheProjection
PROPERTY
    BranchesAreIndependent
