\* A pulse started less than PT before the counter wraps.
SPECIFICATION FairWrap
CONSTANTS
    PtUs = 25
    PeriodUs = 10
    MaxTick = 7
    Monotone = FALSE
    MaxCalls = 0
    MaxStep = 0
PROPERTY PulseEnds
