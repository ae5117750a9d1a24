CONSTANTS
    Msgs = {m1}
    Sender = sender
    Receiver = receiver
    NoMsg = none
    MaxConns <- ReceiverTwice
    MaxUnderWay = 2
    AutoReconnect = FALSE
    DbFaults = FALSE
    Restarts = FALSE
SPECIFICATION FairSpec
INVARIANTS TypeOK NotStranded
PROPERTIES DeliveredStays PendingIsDelivered
CHECK_DEADLOCK FALSE
