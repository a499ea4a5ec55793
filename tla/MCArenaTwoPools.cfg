SPECIFICATION Spec
CONSTANTS
    t1 = t1
    t2 = t2
    Threads <- MCThreads
    Arenas <- MCArenas
    Base <- MCBase
    Cap <- MCCap
    ChunkMin = 4
    ChunkMax = 14
    IndexMod = 64
    Requests <- MCRequests
    Rules <- TwoPoolRules
    MaxOffset = 24
SYMMETRY Symmetry
INVARIANT HandlesInPool
