SPECIFICATION Spec
CONSTANTS
    IntMax = 32767
    NBools = 16
    NInts = 12
    NTrigs = 2
    Gas = 200
    HostInputs = {"x"}
    MaxScans = 2
    Fragile <- MCFragile
    Bytes = {0, 1, 3, 7, 8, 64, 65, 115}
    Programs <- AllProgs
INVARIANTS
    ReadsPrecedence
    SlotsHoldVariables
    NothingSkipped
    LoadsIfShallow
    AcceptedIsWhole
