CONSTANTS
    NumWorkers = 2
    Conns = {c1, c2, c3}
SPECIFICATION FairSpec
INVARIANTS
    TypeOK
    QuitIsClean
PROPERTY
    QuietStopCompletes
CHECK_DEADLOCK FALSE
