SPECIFICATION HFairSpec
CONSTANTS
    IntMax = 3
    NBools = 2
    NInts = 2
    NTrigs = 1
    Gas = 10
    Cost <- MCCost
    CostDispatch = 1
    CostIf = 2
    CostFor = 3
    WordMod = 65536
    LoopBound = 10
    Programs <- AllPrograms
    Memories <- MCMemories
INVARIANTS
    FramesNest
    MatchesSpec
    MatchesLanguage
    CostWithinWcet
PROPERTIES
    ScanEnds
