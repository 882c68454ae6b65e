SPECIFICATION FairSpec
CONSTANTS
    QueueSize = 2
    MaxPackets = 5
CHECK_DEADLOCK FALSE
INVARIANTS
    TypeOK
    ReportedInOrder
    NoSilentLoss
PROPERTIES
    EventReported
