SPECIFICATION MCSpec
CONSTANTS
    NumBlocks = 1
    BatchCounts = {1}
    Workers = {w1}
    Tables = {1, 2}
    CircuitConfigs <- SharedTable
    MaxCrashes = 1
    MaxBlock = 0
    MaxFirst = 1
    MaxLength = 1
    PrevCount = 2
    MaxRetries = 0
    MaxErrors = 0
INVARIANT TablesLoadable
