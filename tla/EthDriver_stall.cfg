SPECIFICATION FairSpec
CONSTANTS
    txRingSize = 4
    rxRingSize = 1
    MaxCallers = 1
    MaxCount = 1
PROPERTY
    BlockedWriteReleased
CHECK_DEADLOCK FALSE
