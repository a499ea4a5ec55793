SPECIFICATION RingSpec
CONSTANTS
    Capacity = 2
    IndexMod = 4
    PayloadCap = 2
    MaxRecords = 5
    IdMod = 6
    MaxPackets = 7
    Lens <- MCLens
INVARIANTS TypeOK RaceFree SizeBounded ReportAddsUp ExportsOldest
PROPERTIES ImplementsFifo AllDelivered RefusalIsFinal Finishes
CHECK_DEADLOCK FALSE
