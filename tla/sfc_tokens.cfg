CONSTANTS
    Steps <- McSteps
    Initial = {"GO"}
    Net <- McNet
    Flows <- McFlows
    Exclusive <- McExclusive
    Actions <- McActions
    Variables = {"lamp", "off"}
    Assocs <- McAssocs
    Elapsed <- McElapsed
    TMax = 0
SPECIFICATION HSpec
INVARIANTS FlowsMarked PulseOncePerEntry
PROPERTY PlaysTokenGame
