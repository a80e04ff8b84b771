SPECIFICATION HSpec
CONSTANTS
    IntMax = 3
    Presets <- MCPresets
    MaxCalls = 5
INVARIANTS
    CountersTrackEdges
    EdgesAndLatchesRemember
PROPERTIES
    RefinesCombinators
\* A recorded program stops after MaxCalls.
CHECK_DEADLOCK FALSE
