CONSTANTS
    Users = {a, b}
    NoUser = NoUser
    Servers = {s, t}
    Home = s
    Steps = 2
    QueueBound = 2
SPECIFICATION FairSpec
INVARIANTS
    TypeOK
    ChatIsSignedIn
    RestartKeepsSession
    WindowFitsConnection
    FollowsIntent
    FramesInStep
PROPERTIES
    Settles
    GetsConnected
CHECK_DEADLOCK FALSE
