CONSTANTS
    ClientIds = {m1}
    ServerIds = {s1, s2}
    MaxRetries = 5
    MaxSeq = 2
    MaxConnections = 2
    Corruption = FALSE
    AutoReconnect = TRUE
SPECIFICATION Spec
INVARIANT ServerAckMeansDelivered
CHECK_DEADLOCK FALSE
