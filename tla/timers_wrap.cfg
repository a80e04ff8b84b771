\* The tick counter wraps every 8 scans; a preset of 2 ticks.
SPECIFICATION FairWrap
CONSTANTS
    PtUs = 25
    PeriodUs = 10
    MaxTick = 7
    Monotone = FALSE
    MaxCalls = 0
    MaxStep = 0
PROPERTY TonReleases
