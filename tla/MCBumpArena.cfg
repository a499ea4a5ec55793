SPECIFICATION Spec
CONSTANTS
    t1 = t1
    t2 = t2
    Threads <- MCThreads
    Arenas <- MCArenas
    Base <- MCBase
    Cap <- MCCap
    Round <- MCRound
    Header <- MCHeader
    IndexMod <- MCIndexMod
    Rules <- MCRules
    Resettable <- MCResettable
    Sizes <- MCSizes
    MaxOffset = 20
SYMMETRY Symmetry
INVARIANT NoByteLost
PROPERTIES ImplementsRegions
