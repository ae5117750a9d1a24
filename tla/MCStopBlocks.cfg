CONSTANTS
    NumWorkers = 2
    Conns = {c1, c2}
SPECIFICATION FairSpec
PROPERTY
    StopCompletes
CHECK_DEADLOCK FALSE
