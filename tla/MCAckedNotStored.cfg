CONSTANTS
    Msgs = {m1}
    Sender = sender
    Receiver = receiver
    NoMsg = none
    MaxConns <- SenderTwice
    MaxUnderWay = 3
    AutoReconnect = TRUE
    DbFaults = FALSE
    Restarts = FALSE
SPECIFICATION Spec
INVARIANTS AckedIsStored
CHECK_DEADLOCK FALSE
