SPECIFICATION PartsSpec
CONSTANTS
    Capacity = 4
    Words = 2
    MaxElements = 9
    Packets = 4
    QueueRoom = 1
    Quota = 2
    MaxDatagrams = 2
    MaxFailures = 1
    Tasks <- MCTasks
    Priority <- MCPriority
    HeapRoom = 4
    HasEntry <- MCHasEntry
    MaxNested = 2
    Nodes <- MCNodes
    Point <- MCPoint
    MinRoom = 5
    TableKeys <- MCTableKeys
    TableHandles <- MCTableHandles
    MaxEntries = 4
    SoaKeys <- MCSoaKeys
    SoaValues <- MCSoaValues
    Home <- MCHome
    SoaSlots = 4
    Lanes = 2
    SetSize = 4
    NodeCount = 4
    Source = 0
    Sink = 3
    Capacities <- MCCapacities
    NODES = 3
    Named <- MCNamed
    Kernels <- MCKernels
    MaxCount = 35
    Owners = {"t1", "t2"}
    Chunks = {1, 2, 3}
    BlockSizes = {4, 5}
    AskedSizes = {1, 3}
    Grain = 2
    FileSize = 9
    Asked = 3
    CacheLine = 2
    MaxLen = 2
    MaxReceived = 5
    MaxRuns = 2
    ArenaPackets = 2
    LogEntries = 2
    Seconds = 1
    MaxAudited = 4
INVARIANTS PartsTypeOK SlotsRaceFree SizeSafe RingOwes HeapOrder LookupRight
    RanksBound Preflow HeightsFallByOne KernelsCoverExactly
    BlocksPrivate FileIsThisRun CsvComplete
PROPERTIES ImplementsFifo AllThrough HeapImplementsBag TopTaskRuns
    MinHeapImplementsBag TableImplementsDict SetsImplementPartition
CHECK_DEADLOCK FALSE
