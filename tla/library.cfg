\* A preset of half a second and instants half a second apart: sums of
\* nanoseconds reach a whole second.
SPECIFICATION Spec
CONSTANTS
    PT <- HalfSecond
    Instants <- MCInstants
    Unit = 2
    Horizon = 5
    WordMax = 1
    Presets <- MCPresets
    CYCLE <- HalfSecond
    TR <- OneSecond
    Gain = 2
    ResetSeconds = 2
    RateSeconds = 5
    Levels <- MCLevels
    Bands = {0, 2}
    Dates <- MCDates
    Ticks = {1, 86400, 5184000}
    MaxCalls <- MCMaxCalls
    Configurations <- MCConfigurations
    Globals = {"g", "h"}
    Nanos <- MCNanos
    UllMax = 255
    UlMax = 15
    MaxTicks = 17
    STR_MAX_LEN = 3
    StrlenRange = 7
    Width = 3
    Texts <- MCTexts
    Moments <- MCMoments
INVARIANTS
    EdgesAreCounted
    RegulatorsKeepCourse
    RtcKeepsCalendar
    FunctionsMeetStandard
    ReleasedInTime
PROPERTIES
    RefinesCombinators
\* An instance is called MaxCalls times.
CHECK_DEADLOCK FALSE
