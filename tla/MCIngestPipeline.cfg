SPECIFICATION PipeSpec
CONSTANTS
    Packets = 3
    QueueRoom = 2
    Quota = 3
    MaxDatagrams = 1
    MaxFailures = 0
INVARIANT ProcessedArrived
CHECK_DEADLOCK FALSE
