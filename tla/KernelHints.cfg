SPECIFICATION MCSpec
CONSTANTS
    Keys <- AllKeys
    Sticky <- RipeMd
    Top = 4
    MaxNodes = 6
    W = 2
    MaxLen = 5
    Len1 = 3
    Len2 = 2
    Gas = 8
INVARIANTS ListRight AnalysisRight SimulationRight
PROPERTY ImplementsWarmSet
