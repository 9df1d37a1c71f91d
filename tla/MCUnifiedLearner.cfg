SPECIFICATION Spec
CONSTANTS
    scheduler = scheduler
    explorer = explorer
    havoc = havoc
    moptArm = moptArm
    analysis = analysis
    Nobody = Nobody
    Callers <- MCCallers
    Arms <- MCArms
    MarkovArms <- MCMarkovArms
    MOptArms <- MCMOptArms
    OpSequences <- MCOpSequences
    NumOps = 3
    TSPeriod = 3
    TSMin = 2
    MOptPeriod = 3
    MOptMin = 2
    AliasInterval = 4
    MarkovMin = 3
    MaxResults = 5
INVARIANT TypeOK
INVARIANT EachResultInOneWindow
INVARIANT TablesFollow
INVARIANT RebuildsAreBacked
INVARIANT TablesAreSound
PROPERTY TablesOnlyAdvance
CHECK_DEADLOCK FALSE
