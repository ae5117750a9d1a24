CONSTANTS
    Users = {u1, u2}
    Conns = {c1, c2}
    NoUser = NoUser
    NoConn = NoConn
    MaxTokens = 2
    QueueBound = 1
    CallBound = 1
    DbFaults = TRUE
SPECIFICATION FairSpec
INVARIANTS
    TypeOK
    RegistryBijection
    NoUseAfterFree
    Lifecycle
    UsersListCurrent
    HolderCanResume
PROPERTIES
    ImplementsDirectory
    GhostLeaves
    ClosedIsFreed
CHECK_DEADLOCK FALSE
