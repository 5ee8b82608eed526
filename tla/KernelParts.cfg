SPECIFICATION MCSpec
CONSTANTS
    Addrs = {1, 2}
    Keys = {2, 3}
    Vals = {0, 3}
    MaxCells = 8
    MaxUndo = 2
    Top = 3
    Accts = {1, 2}
    Slots = {1, 2}
    Values = {1, 2}
    MaxAccounts = 3
    MaxSlots = 3
    Programs <- MCPrograms
    WordBytes = 2
    LabelBytes = 3
    Stacks <- MCStacks
INVARIANTS FindsPair StateListsRight KernelTrieRight StackOpsRight
PROPERTIES ImplementsMap OptimizerRight
