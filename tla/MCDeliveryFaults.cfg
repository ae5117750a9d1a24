CONSTANTS
    Msgs = {m1}
    Sender = sender
    Receiver = receiver
    NoMsg = none
    MaxConns <- SenderTwice
    MaxUnderWay = 2
    AutoReconnect = TRUE
    DbFaults = TRUE
    Restarts = TRUE
SPECIFICATION Spec
INVARIANTS StatusIsEarned TableKnowsFirst
CHECK_DEADLOCK FALSE
