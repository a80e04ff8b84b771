CONSTANTS
    Steps = {"A", "B"}
    Initial = {"A"}
    Net <- TwoSteps
    Flows <- TwoFlows
    Exclusive = {}
    Actions <- TwoActions
    Variables = {"go", "lim", "on"}
    Assocs <- TwoAssocs
    Elapsed = {0, 1, 2}
    TMax = 2
SPECIFICATION HSpec
INVARIANTS FollowsStep StoredInTime ResetHolds
