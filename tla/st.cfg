SPECIFICATION Spec
CONSTANTS
    Top = 4
    Widths <- MCWidths
    env <- MCEnv
    Programs <- MCPrograms
    Memories <- MCMemories
    FunctionBody <- MCFunctionBody
    BlockBody <- MCBlockBody
    MaxLoops = 8
    MaxScans = 2
INVARIANTS
    StRejectsIllegal
    StAcceptedIsC
    OverlapsAreFound
PROPERTY
    StScanAsLanguage
CHECK_DEADLOCK FALSE
