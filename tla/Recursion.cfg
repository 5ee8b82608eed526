\* Aggregation, the layout and the circuits stop when nothing is left to combine or to read.
SPECIFICATION MCSpec
CONSTANTS
    Segments <- AllSegments
    MainLabel = 0
    HaltLabel = 9
    InitCap = 0
    EmptyRoot = 10
    HashCount = 2
    NumTables = 2
    MemBefore = 1
    MemAfter = 2
    RangeStart = 2
    RangeEnd = 5
    MaxBits = 5
    Segs = {s1, s2}
    THRESHOLD_DEGREE_BITS = 3
    Programs <- AllPrograms
    HaltPc = 9
    MaxCpuLenLogs = {0, 3, 4, 5}
    NUM_EXTRA_CYCLES_BEFORE = 2
    NUM_EXTRA_CYCLES_AFTER = 4
    MaxSegments = 20
    MaxCalls = 2
CHECK_DEADLOCK FALSE
INVARIANTS ChainAttested FoldsSucceed LayoutRight SegmentsSafe
PROPERTIES CircuitsRight SegmentsEnd
