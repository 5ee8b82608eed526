SPECIFICATION MCSpec
CONSTANTS
    Addrs = {1, 2}
    Keys = {2, 3}
    Vals = {0, 1}
    MaxCells = 11
    MaxUndo = 2
    Top = 3
    Accts = {1, 2}
    Slots = {1, 2}
    Values = {1, 2}
    MaxAccounts = 3
    MaxSlots = 3
    Programs <- MCPrograms
    WordBytes = 2
    LabelBytes = 3
    Stacks <- MCStacks
INVARIANT SearchFindsPair
