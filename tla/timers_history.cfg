\* A preset of 25 ms with a 10 ms scan: PT = 2 ticks.
SPECIFICATION HSpec
CONSTANTS
    PtUs = 25
    PeriodUs = 10
    MaxTick = 14
    Monotone = TRUE
    MaxCalls = 6
    MaxStep = 3
INVARIANT OutputsMeetPresets
PROPERTY RefinesCombinators
CHECK_DEADLOCK FALSE
