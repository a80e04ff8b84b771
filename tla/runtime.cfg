SPECIFICATION Spec
CONSTANTS
    IntMax = 2
    NBools = 2
    NInts = 2
    NTrigs = 1
    Gas = 12
    Cost <- MCCost
    CostDispatch = 1
    CostIf = 1
    CostFor = 1
    WordMod = 65536
    Images <- MCImages
    Budgets = {0, 8, 20}
    Host = "each"
INVARIANTS
    InitFromZero
    ScanMeetsBudget
    OnlyAcceptedRuns
