CONSTANTS
    ClientIds = {m1}
    ServerIds = {s1}
    MaxRetries = 1
    MaxSeq = 2
    MaxConnections = 2
    Corruption = TRUE
    AutoReconnect = TRUE
SPECIFICATION FairSpec
INVARIANTS
    TypeOK
    AckMeansDelivered
    NothingSkipped
PROPERTIES
    ImplementsReliableLink
    Settles
CHECK_DEADLOCK FALSE
