CONSTANTS
    Users = {u1}
    Conns = {c1, c2}
    NoUser = NoUser
    NoConn = NoConn
    MaxTokens = 2
    QueueBound = 2
    CallBound = 2
    DbFaults = FALSE
SPECIFICATION OneClientSpec
INVARIANT ReconnectNotLockedOut
CHECK_DEADLOCK FALSE
