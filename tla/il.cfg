SPECIFICATION HSpec
CONSTANTS
    Top = 4
    Widths <- MCWidths
    Dialects <- MCDialects
    MaxSteps = 7
INVARIANTS
    ScanAsLanguage
    WellTyped
    RejectedIsWrong
    AcceptedIsC
PROPERTY
    ConstantsHold
CHECK_DEADLOCK FALSE
