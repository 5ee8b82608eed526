SPECIFICATION MCSpec
CONSTANTS
    NumBlocks = 3
    BatchCounts = {1, 2}
    Workers = {w1, w2}
    Tables = {1, 2}
    CircuitConfigs <- SharedTable
    MaxCrashes = 1
    MaxBlock = 3
    MaxFirst = 4
    MaxLength = 3
    PrevCount = 2
    MaxRetries = 1
    MaxErrors = 2
INVARIANT KeptProofsWritten
